---- MODULE Spec2Model ----
(***************************************************************************)
(* Thread summarizer backend: response parser, local heuristics, provider  *)
(* retry, fallback orchestration and the HTTP route layer.                 *)
(*                                                                         *)
(* A JavaScript string is modelled as a sequence of one-character strings, *)
(* so that trimming, searching, splitting and truncation are computed.     *)
(***************************************************************************)
EXTENDS Integers, Sequences, FiniteSets, TLC

(***************************************************************************)
(* String primitives                                                       *)
(***************************************************************************)
SetMin(S) == CHOOSE x \in S : \A y \in S : x <= y

SetMax(S) == CHOOSE x \in S : \A y \in S : x >= y

MathMin(a, b) == IF a <= b THEN a ELSE b

MathMax(a, b) == IF a >= b THEN a ELSE b

\* variant of MathCeilDiv that rounds down
MathCeilDiv_Floor(a, b) == a \div b

\* Math.ceil(a / b)
MathCeilDiv(a, b) == (a + b - 1) \div b

Digits == {"0", "1", "2", "3", "4", "5", "6", "7", "8", "9"}

DigitValue(c) ==
    CASE c = "0" -> 0 [] c = "1" -> 1 [] c = "2" -> 2 [] c = "3" -> 3
      [] c = "4" -> 4 [] c = "5" -> 5 [] c = "6" -> 6 [] c = "7" -> 7
      [] c = "8" -> 8 [] c = "9" -> 9

\* A character outside printable ASCII and the escapes \n \t \r \f is written
\* as a one-element token: "U+00C9" is the one character U+00C9. The grave
\* accent is written "U+0060".
\* U+201C, the left curly double quote, as one character
LDQUO == "ldquo"

\* the characters JavaScript counts as WhiteSpace or LineTerminator: what
\* String.prototype.trim strips and \s matches
WhiteSpace ==
    {" ", "\n", "\t", "\r", "\f", "U+000B", "U+00A0", "U+FEFF", "U+1680",
     "U+2000", "U+2001", "U+2002", "U+2003", "U+2004", "U+2005", "U+2006",
     "U+2007", "U+2008", "U+2009", "U+200A", "U+2028", "U+2029", "U+202F",
     "U+205F", "U+3000"}

IsSpace(c) == c \in WhiteSpace

\* the characters of a string, one by one
chars(s) == [i \in 1..Len(s) |-> SubSeq(s, i, i)]

\* the code units written in s one after the other, each as U+ and four
\* hexadecimal digits
codeUnits(s) == [i \in 1..(Len(s) \div 6) |-> SubSeq(s, 6 * i - 5, 6 * i)]

Range(f) == {f[i] : i \in DOMAIN f}

\* the code units whose lower case is one other code unit: the letters of
\* ASCII, the others in code order, and the Kelvin sign
Upper ==
    chars("ABCDEFGHIJKLMNOPQRSTUVWXYZ")
        \o codeUnits(
              "U+00C0U+00C1U+00C2U+00C3U+00C4U+00C5U+00C6U+00C7U+00C8U+00C9U+00CAU+00CBU+00CCU+00CDU+00CEU+00CFU+00D0U+00D1U+00D2U+00D3U+00D4U+00D5U+00D6U+00D8U+00D9U+00DAU+00DBU+00DCU+00DDU+00DEU+0100U+0102"
          \o "U+0104U+0106U+0108U+010AU+010CU+010EU+0110U+0112U+0114U+0116U+0118U+011AU+011CU+011EU+0120U+0122U+0124U+0126U+0128U+012AU+012CU+012EU+0132U+0134U+0136U+0139U+013BU+013DU+013FU+0141U+0143U+0145"
          \o "U+0147U+014AU+014CU+014EU+0150U+0152U+0154U+0156U+0158U+015AU+015CU+015EU+0160U+0162U+0164U+0166U+0168U+016AU+016CU+016EU+0170U+0172U+0174U+0176U+0178U+0179U+017BU+017DU+0181U+0182U+0184U+0186"
          \o "U+0187U+0189U+018AU+018BU+018EU+018FU+0190U+0191U+0193U+0194U+0196U+0197U+0198U+019CU+019DU+019FU+01A0U+01A2U+01A4U+01A6U+01A7U+01A9U+01ACU+01AEU+01AFU+01B1U+01B2U+01B3U+01B5U+01B7U+01B8U+01BC"
          \o "U+01C4U+01C5U+01C7U+01C8U+01CAU+01CBU+01CDU+01CFU+01D1U+01D3U+01D5U+01D7U+01D9U+01DBU+01DEU+01E0U+01E2U+01E4U+01E6U+01E8U+01EAU+01ECU+01EEU+01F1U+01F2U+01F4U+01F6U+01F7U+01F8U+01FAU+01FCU+01FE"
          \o "U+0200U+0202U+0204U+0206U+0208U+020AU+020CU+020EU+0210U+0212U+0214U+0216U+0218U+021AU+021CU+021EU+0220U+0222U+0224U+0226U+0228U+022AU+022CU+022EU+0230U+0232U+023AU+023BU+023DU+023EU+0241U+0243"
          \o "U+0244U+0245U+0246U+0248U+024AU+024CU+024EU+0370U+0372U+0376U+037FU+0386U+0388U+0389U+038AU+038CU+038EU+038FU+0391U+0392U+0393U+0394U+0395U+0396U+0397U+0398U+0399U+039AU+039BU+039CU+039DU+039E"
          \o "U+039FU+03A0U+03A1U+03A3U+03A4U+03A5U+03A6U+03A7U+03A8U+03A9U+03AAU+03ABU+03CFU+03D8U+03DAU+03DCU+03DEU+03E0U+03E2U+03E4U+03E6U+03E8U+03EAU+03ECU+03EEU+03F4U+03F7U+03F9U+03FAU+03FDU+03FEU+03FF"
          \o "U+0400U+0401U+0402U+0403U+0404U+0405U+0406U+0407U+0408U+0409U+040AU+040BU+040CU+040DU+040EU+040FU+0410U+0411U+0412U+0413U+0414U+0415U+0416U+0417U+0418U+0419U+041AU+041BU+041CU+041DU+041EU+041F"
          \o "U+0420U+0421U+0422U+0423U+0424U+0425U+0426U+0427U+0428U+0429U+042AU+042BU+042CU+042DU+042EU+042FU+0460U+0462U+0464U+0466U+0468U+046AU+046CU+046EU+0470U+0472U+0474U+0476U+0478U+047AU+047CU+047E"
          \o "U+0480U+048AU+048CU+048EU+0490U+0492U+0494U+0496U+0498U+049AU+049CU+049EU+04A0U+04A2U+04A4U+04A6U+04A8U+04AAU+04ACU+04AEU+04B0U+04B2U+04B4U+04B6U+04B8U+04BAU+04BCU+04BEU+04C0U+04C1U+04C3U+04C5"
          \o "U+04C7U+04C9U+04CBU+04CDU+04D0U+04D2U+04D4U+04D6U+04D8U+04DAU+04DCU+04DEU+04E0U+04E2U+04E4U+04E6U+04E8U+04EAU+04ECU+04EEU+04F0U+04F2U+04F4U+04F6U+04F8U+04FAU+04FCU+04FEU+0500U+0502U+0504U+0506"
          \o "U+0508U+050AU+050CU+050EU+0510U+0512U+0514U+0516U+0518U+051AU+051CU+051EU+0520U+0522U+0524U+0526U+0528U+052AU+052CU+052EU+0531U+0532U+0533U+0534U+0535U+0536U+0537U+0538U+0539U+053AU+053BU+053C"
          \o "U+053DU+053EU+053FU+0540U+0541U+0542U+0543U+0544U+0545U+0546U+0547U+0548U+0549U+054AU+054BU+054CU+054DU+054EU+054FU+0550U+0551U+0552U+0553U+0554U+0555U+0556U+10A0U+10A1U+10A2U+10A3U+10A4U+10A5"
          \o "U+10A6U+10A7U+10A8U+10A9U+10AAU+10ABU+10ACU+10ADU+10AEU+10AFU+10B0U+10B1U+10B2U+10B3U+10B4U+10B5U+10B6U+10B7U+10B8U+10B9U+10BAU+10BBU+10BCU+10BDU+10BEU+10BFU+10C0U+10C1U+10C2U+10C3U+10C4U+10C5"
          \o "U+10C7U+10CDU+13A0U+13A1U+13A2U+13A3U+13A4U+13A5U+13A6U+13A7U+13A8U+13A9U+13AAU+13ABU+13ACU+13ADU+13AEU+13AFU+13B0U+13B1U+13B2U+13B3U+13B4U+13B5U+13B6U+13B7U+13B8U+13B9U+13BAU+13BBU+13BCU+13BD"
          \o "U+13BEU+13BFU+13C0U+13C1U+13C2U+13C3U+13C4U+13C5U+13C6U+13C7U+13C8U+13C9U+13CAU+13CBU+13CCU+13CDU+13CEU+13CFU+13D0U+13D1U+13D2U+13D3U+13D4U+13D5U+13D6U+13D7U+13D8U+13D9U+13DAU+13DBU+13DCU+13DD"
          \o "U+13DEU+13DFU+13E0U+13E1U+13E2U+13E3U+13E4U+13E5U+13E6U+13E7U+13E8U+13E9U+13EAU+13EBU+13ECU+13EDU+13EEU+13EFU+13F0U+13F1U+13F2U+13F3U+13F4U+13F5U+1C89U+1C90U+1C91U+1C92U+1C93U+1C94U+1C95U+1C96"
          \o "U+1C97U+1C98U+1C99U+1C9AU+1C9BU+1C9CU+1C9DU+1C9EU+1C9FU+1CA0U+1CA1U+1CA2U+1CA3U+1CA4U+1CA5U+1CA6U+1CA7U+1CA8U+1CA9U+1CAAU+1CABU+1CACU+1CADU+1CAEU+1CAFU+1CB0U+1CB1U+1CB2U+1CB3U+1CB4U+1CB5U+1CB6"
          \o "U+1CB7U+1CB8U+1CB9U+1CBAU+1CBDU+1CBEU+1CBFU+1E00U+1E02U+1E04U+1E06U+1E08U+1E0AU+1E0CU+1E0EU+1E10U+1E12U+1E14U+1E16U+1E18U+1E1AU+1E1CU+1E1EU+1E20U+1E22U+1E24U+1E26U+1E28U+1E2AU+1E2CU+1E2EU+1E30"
          \o "U+1E32U+1E34U+1E36U+1E38U+1E3AU+1E3CU+1E3EU+1E40U+1E42U+1E44U+1E46U+1E48U+1E4AU+1E4CU+1E4EU+1E50U+1E52U+1E54U+1E56U+1E58U+1E5AU+1E5CU+1E5EU+1E60U+1E62U+1E64U+1E66U+1E68U+1E6AU+1E6CU+1E6EU+1E70"
          \o "U+1E72U+1E74U+1E76U+1E78U+1E7AU+1E7CU+1E7EU+1E80U+1E82U+1E84U+1E86U+1E88U+1E8AU+1E8CU+1E8EU+1E90U+1E92U+1E94U+1E9EU+1EA0U+1EA2U+1EA4U+1EA6U+1EA8U+1EAAU+1EACU+1EAEU+1EB0U+1EB2U+1EB4U+1EB6U+1EB8"
          \o "U+1EBAU+1EBCU+1EBEU+1EC0U+1EC2U+1EC4U+1EC6U+1EC8U+1ECAU+1ECCU+1ECEU+1ED0U+1ED2U+1ED4U+1ED6U+1ED8U+1EDAU+1EDCU+1EDEU+1EE0U+1EE2U+1EE4U+1EE6U+1EE8U+1EEAU+1EECU+1EEEU+1EF0U+1EF2U+1EF4U+1EF6U+1EF8"
          \o "U+1EFAU+1EFCU+1EFEU+1F08U+1F09U+1F0AU+1F0BU+1F0CU+1F0DU+1F0EU+1F0FU+1F18U+1F19U+1F1AU+1F1BU+1F1CU+1F1DU+1F28U+1F29U+1F2AU+1F2BU+1F2CU+1F2DU+1F2EU+1F2FU+1F38U+1F39U+1F3AU+1F3BU+1F3CU+1F3DU+1F3E"
          \o "U+1F3FU+1F48U+1F49U+1F4AU+1F4BU+1F4CU+1F4DU+1F59U+1F5BU+1F5DU+1F5FU+1F68U+1F69U+1F6AU+1F6BU+1F6CU+1F6DU+1F6EU+1F6FU+1F88U+1F89U+1F8AU+1F8BU+1F8CU+1F8DU+1F8EU+1F8FU+1F98U+1F99U+1F9AU+1F9BU+1F9C"
          \o "U+1F9DU+1F9EU+1F9FU+1FA8U+1FA9U+1FAAU+1FABU+1FACU+1FADU+1FAEU+1FAFU+1FB8U+1FB9U+1FBAU+1FBBU+1FBCU+1FC8U+1FC9U+1FCAU+1FCBU+1FCCU+1FD8U+1FD9U+1FDAU+1FDBU+1FE8U+1FE9U+1FEAU+1FEBU+1FECU+1FF8U+1FF9"
          \o "U+1FFAU+1FFBU+1FFCU+2126U+212BU+2132U+2160U+2161U+2162U+2163U+2164U+2165U+2166U+2167U+2168U+2169U+216AU+216BU+216CU+216DU+216EU+216FU+2183U+24B6U+24B7U+24B8U+24B9U+24BAU+24BBU+24BCU+24BDU+24BE"
          \o "U+24BFU+24C0U+24C1U+24C2U+24C3U+24C4U+24C5U+24C6U+24C7U+24C8U+24C9U+24CAU+24CBU+24CCU+24CDU+24CEU+24CFU+2C00U+2C01U+2C02U+2C03U+2C04U+2C05U+2C06U+2C07U+2C08U+2C09U+2C0AU+2C0BU+2C0CU+2C0DU+2C0E"
          \o "U+2C0FU+2C10U+2C11U+2C12U+2C13U+2C14U+2C15U+2C16U+2C17U+2C18U+2C19U+2C1AU+2C1BU+2C1CU+2C1DU+2C1EU+2C1FU+2C20U+2C21U+2C22U+2C23U+2C24U+2C25U+2C26U+2C27U+2C28U+2C29U+2C2AU+2C2BU+2C2CU+2C2DU+2C2E"
          \o "U+2C2FU+2C60U+2C62U+2C63U+2C64U+2C67U+2C69U+2C6BU+2C6DU+2C6EU+2C6FU+2C70U+2C72U+2C75U+2C7EU+2C7FU+2C80U+2C82U+2C84U+2C86U+2C88U+2C8AU+2C8CU+2C8EU+2C90U+2C92U+2C94U+2C96U+2C98U+2C9AU+2C9CU+2C9E"
          \o "U+2CA0U+2CA2U+2CA4U+2CA6U+2CA8U+2CAAU+2CACU+2CAEU+2CB0U+2CB2U+2CB4U+2CB6U+2CB8U+2CBAU+2CBCU+2CBEU+2CC0U+2CC2U+2CC4U+2CC6U+2CC8U+2CCAU+2CCCU+2CCEU+2CD0U+2CD2U+2CD4U+2CD6U+2CD8U+2CDAU+2CDCU+2CDE"
          \o "U+2CE0U+2CE2U+2CEBU+2CEDU+2CF2U+A640U+A642U+A644U+A646U+A648U+A64AU+A64CU+A64EU+A650U+A652U+A654U+A656U+A658U+A65AU+A65CU+A65EU+A660U+A662U+A664U+A666U+A668U+A66AU+A66CU+A680U+A682U+A684U+A686"
          \o "U+A688U+A68AU+A68CU+A68EU+A690U+A692U+A694U+A696U+A698U+A69AU+A722U+A724U+A726U+A728U+A72AU+A72CU+A72EU+A732U+A734U+A736U+A738U+A73AU+A73CU+A73EU+A740U+A742U+A744U+A746U+A748U+A74AU+A74CU+A74E"
          \o "U+A750U+A752U+A754U+A756U+A758U+A75AU+A75CU+A75EU+A760U+A762U+A764U+A766U+A768U+A76AU+A76CU+A76EU+A779U+A77BU+A77DU+A77EU+A780U+A782U+A784U+A786U+A78BU+A78DU+A790U+A792U+A796U+A798U+A79AU+A79C"
          \o "U+A79EU+A7A0U+A7A2U+A7A4U+A7A6U+A7A8U+A7AAU+A7ABU+A7ACU+A7ADU+A7AEU+A7B0U+A7B1U+A7B2U+A7B3U+A7B4U+A7B6U+A7B8U+A7BAU+A7BCU+A7BEU+A7C0U+A7C2U+A7C4U+A7C5U+A7C6U+A7C7U+A7C9U+A7CBU+A7CCU+A7CEU+A7D0"
          \o "U+A7D2U+A7D4U+A7D6U+A7D8U+A7DAU+A7DCU+A7F5U+FF21U+FF22U+FF23U+FF24U+FF25U+FF26U+FF27U+FF28U+FF29U+FF2AU+FF2BU+FF2CU+FF2DU+FF2EU+FF2FU+FF30U+FF31U+FF32U+FF33U+FF34U+FF35U+FF36U+FF37U+FF38U+FF39"
          \o "U+FF3A")
        \o <<"U+212A">>

\* their lower case, in the same order
Lower ==
    chars("abcdefghijklmnopqrstuvwxyz")
        \o codeUnits(
              "U+00E0U+00E1U+00E2U+00E3U+00E4U+00E5U+00E6U+00E7U+00E8U+00E9U+00EAU+00EBU+00ECU+00EDU+00EEU+00EFU+00F0U+00F1U+00F2U+00F3U+00F4U+00F5U+00F6U+00F8U+00F9U+00FAU+00FBU+00FCU+00FDU+00FEU+0101U+0103"
          \o "U+0105U+0107U+0109U+010BU+010DU+010FU+0111U+0113U+0115U+0117U+0119U+011BU+011DU+011FU+0121U+0123U+0125U+0127U+0129U+012BU+012DU+012FU+0133U+0135U+0137U+013AU+013CU+013EU+0140U+0142U+0144U+0146"
          \o "U+0148U+014BU+014DU+014FU+0151U+0153U+0155U+0157U+0159U+015BU+015DU+015FU+0161U+0163U+0165U+0167U+0169U+016BU+016DU+016FU+0171U+0173U+0175U+0177U+00FFU+017AU+017CU+017EU+0253U+0183U+0185U+0254"
          \o "U+0188U+0256U+0257U+018CU+01DDU+0259U+025BU+0192U+0260U+0263U+0269U+0268U+0199U+026FU+0272U+0275U+01A1U+01A3U+01A5U+0280U+01A8U+0283U+01ADU+0288U+01B0U+028AU+028BU+01B4U+01B6U+0292U+01B9U+01BD"
          \o "U+01C6U+01C6U+01C9U+01C9U+01CCU+01CCU+01CEU+01D0U+01D2U+01D4U+01D6U+01D8U+01DAU+01DCU+01DFU+01E1U+01E3U+01E5U+01E7U+01E9U+01EBU+01EDU+01EFU+01F3U+01F3U+01F5U+0195U+01BFU+01F9U+01FBU+01FDU+01FF"
          \o "U+0201U+0203U+0205U+0207U+0209U+020BU+020DU+020FU+0211U+0213U+0215U+0217U+0219U+021BU+021DU+021FU+019EU+0223U+0225U+0227U+0229U+022BU+022DU+022FU+0231U+0233U+2C65U+023CU+019AU+2C66U+0242U+0180"
          \o "U+0289U+028CU+0247U+0249U+024BU+024DU+024FU+0371U+0373U+0377U+03F3U+03ACU+03ADU+03AEU+03AFU+03CCU+03CDU+03CEU+03B1U+03B2U+03B3U+03B4U+03B5U+03B6U+03B7U+03B8U+03B9U+03BAU+03BBU+03BCU+03BDU+03BE"
          \o "U+03BFU+03C0U+03C1U+03C3U+03C4U+03C5U+03C6U+03C7U+03C8U+03C9U+03CAU+03CBU+03D7U+03D9U+03DBU+03DDU+03DFU+03E1U+03E3U+03E5U+03E7U+03E9U+03EBU+03EDU+03EFU+03B8U+03F8U+03F2U+03FBU+037BU+037CU+037D"
          \o "U+0450U+0451U+0452U+0453U+0454U+0455U+0456U+0457U+0458U+0459U+045AU+045BU+045CU+045DU+045EU+045FU+0430U+0431U+0432U+0433U+0434U+0435U+0436U+0437U+0438U+0439U+043AU+043BU+043CU+043DU+043EU+043F"
          \o "U+0440U+0441U+0442U+0443U+0444U+0445U+0446U+0447U+0448U+0449U+044AU+044BU+044CU+044DU+044EU+044FU+0461U+0463U+0465U+0467U+0469U+046BU+046DU+046FU+0471U+0473U+0475U+0477U+0479U+047BU+047DU+047F"
          \o "U+0481U+048BU+048DU+048FU+0491U+0493U+0495U+0497U+0499U+049BU+049DU+049FU+04A1U+04A3U+04A5U+04A7U+04A9U+04ABU+04ADU+04AFU+04B1U+04B3U+04B5U+04B7U+04B9U+04BBU+04BDU+04BFU+04CFU+04C2U+04C4U+04C6"
          \o "U+04C8U+04CAU+04CCU+04CEU+04D1U+04D3U+04D5U+04D7U+04D9U+04DBU+04DDU+04DFU+04E1U+04E3U+04E5U+04E7U+04E9U+04EBU+04EDU+04EFU+04F1U+04F3U+04F5U+04F7U+04F9U+04FBU+04FDU+04FFU+0501U+0503U+0505U+0507"
          \o "U+0509U+050BU+050DU+050FU+0511U+0513U+0515U+0517U+0519U+051BU+051DU+051FU+0521U+0523U+0525U+0527U+0529U+052BU+052DU+052FU+0561U+0562U+0563U+0564U+0565U+0566U+0567U+0568U+0569U+056AU+056BU+056C"
          \o "U+056DU+056EU+056FU+0570U+0571U+0572U+0573U+0574U+0575U+0576U+0577U+0578U+0579U+057AU+057BU+057CU+057DU+057EU+057FU+0580U+0581U+0582U+0583U+0584U+0585U+0586U+2D00U+2D01U+2D02U+2D03U+2D04U+2D05"
          \o "U+2D06U+2D07U+2D08U+2D09U+2D0AU+2D0BU+2D0CU+2D0DU+2D0EU+2D0FU+2D10U+2D11U+2D12U+2D13U+2D14U+2D15U+2D16U+2D17U+2D18U+2D19U+2D1AU+2D1BU+2D1CU+2D1DU+2D1EU+2D1FU+2D20U+2D21U+2D22U+2D23U+2D24U+2D25"
          \o "U+2D27U+2D2DU+AB70U+AB71U+AB72U+AB73U+AB74U+AB75U+AB76U+AB77U+AB78U+AB79U+AB7AU+AB7BU+AB7CU+AB7DU+AB7EU+AB7FU+AB80U+AB81U+AB82U+AB83U+AB84U+AB85U+AB86U+AB87U+AB88U+AB89U+AB8AU+AB8BU+AB8CU+AB8D"
          \o "U+AB8EU+AB8FU+AB90U+AB91U+AB92U+AB93U+AB94U+AB95U+AB96U+AB97U+AB98U+AB99U+AB9AU+AB9BU+AB9CU+AB9DU+AB9EU+AB9FU+ABA0U+ABA1U+ABA2U+ABA3U+ABA4U+ABA5U+ABA6U+ABA7U+ABA8U+ABA9U+ABAAU+ABABU+ABACU+ABAD"
          \o "U+ABAEU+ABAFU+ABB0U+ABB1U+ABB2U+ABB3U+ABB4U+ABB5U+ABB6U+ABB7U+ABB8U+ABB9U+ABBAU+ABBBU+ABBCU+ABBDU+ABBEU+ABBFU+13F8U+13F9U+13FAU+13FBU+13FCU+13FDU+1C8AU+10D0U+10D1U+10D2U+10D3U+10D4U+10D5U+10D6"
          \o "U+10D7U+10D8U+10D9U+10DAU+10DBU+10DCU+10DDU+10DEU+10DFU+10E0U+10E1U+10E2U+10E3U+10E4U+10E5U+10E6U+10E7U+10E8U+10E9U+10EAU+10EBU+10ECU+10EDU+10EEU+10EFU+10F0U+10F1U+10F2U+10F3U+10F4U+10F5U+10F6"
          \o "U+10F7U+10F8U+10F9U+10FAU+10FDU+10FEU+10FFU+1E01U+1E03U+1E05U+1E07U+1E09U+1E0BU+1E0DU+1E0FU+1E11U+1E13U+1E15U+1E17U+1E19U+1E1BU+1E1DU+1E1FU+1E21U+1E23U+1E25U+1E27U+1E29U+1E2BU+1E2DU+1E2FU+1E31"
          \o "U+1E33U+1E35U+1E37U+1E39U+1E3BU+1E3DU+1E3FU+1E41U+1E43U+1E45U+1E47U+1E49U+1E4BU+1E4DU+1E4FU+1E51U+1E53U+1E55U+1E57U+1E59U+1E5BU+1E5DU+1E5FU+1E61U+1E63U+1E65U+1E67U+1E69U+1E6BU+1E6DU+1E6FU+1E71"
          \o "U+1E73U+1E75U+1E77U+1E79U+1E7BU+1E7DU+1E7FU+1E81U+1E83U+1E85U+1E87U+1E89U+1E8BU+1E8DU+1E8FU+1E91U+1E93U+1E95U+00DFU+1EA1U+1EA3U+1EA5U+1EA7U+1EA9U+1EABU+1EADU+1EAFU+1EB1U+1EB3U+1EB5U+1EB7U+1EB9"
          \o "U+1EBBU+1EBDU+1EBFU+1EC1U+1EC3U+1EC5U+1EC7U+1EC9U+1ECBU+1ECDU+1ECFU+1ED1U+1ED3U+1ED5U+1ED7U+1ED9U+1EDBU+1EDDU+1EDFU+1EE1U+1EE3U+1EE5U+1EE7U+1EE9U+1EEBU+1EEDU+1EEFU+1EF1U+1EF3U+1EF5U+1EF7U+1EF9"
          \o "U+1EFBU+1EFDU+1EFFU+1F00U+1F01U+1F02U+1F03U+1F04U+1F05U+1F06U+1F07U+1F10U+1F11U+1F12U+1F13U+1F14U+1F15U+1F20U+1F21U+1F22U+1F23U+1F24U+1F25U+1F26U+1F27U+1F30U+1F31U+1F32U+1F33U+1F34U+1F35U+1F36"
          \o "U+1F37U+1F40U+1F41U+1F42U+1F43U+1F44U+1F45U+1F51U+1F53U+1F55U+1F57U+1F60U+1F61U+1F62U+1F63U+1F64U+1F65U+1F66U+1F67U+1F80U+1F81U+1F82U+1F83U+1F84U+1F85U+1F86U+1F87U+1F90U+1F91U+1F92U+1F93U+1F94"
          \o "U+1F95U+1F96U+1F97U+1FA0U+1FA1U+1FA2U+1FA3U+1FA4U+1FA5U+1FA6U+1FA7U+1FB0U+1FB1U+1F70U+1F71U+1FB3U+1F72U+1F73U+1F74U+1F75U+1FC3U+1FD0U+1FD1U+1F76U+1F77U+1FE0U+1FE1U+1F7AU+1F7BU+1FE5U+1F78U+1F79"
          \o "U+1F7CU+1F7DU+1FF3U+03C9U+00E5U+214EU+2170U+2171U+2172U+2173U+2174U+2175U+2176U+2177U+2178U+2179U+217AU+217BU+217CU+217DU+217EU+217FU+2184U+24D0U+24D1U+24D2U+24D3U+24D4U+24D5U+24D6U+24D7U+24D8"
          \o "U+24D9U+24DAU+24DBU+24DCU+24DDU+24DEU+24DFU+24E0U+24E1U+24E2U+24E3U+24E4U+24E5U+24E6U+24E7U+24E8U+24E9U+2C30U+2C31U+2C32U+2C33U+2C34U+2C35U+2C36U+2C37U+2C38U+2C39U+2C3AU+2C3BU+2C3CU+2C3DU+2C3E"
          \o "U+2C3FU+2C40U+2C41U+2C42U+2C43U+2C44U+2C45U+2C46U+2C47U+2C48U+2C49U+2C4AU+2C4BU+2C4CU+2C4DU+2C4EU+2C4FU+2C50U+2C51U+2C52U+2C53U+2C54U+2C55U+2C56U+2C57U+2C58U+2C59U+2C5AU+2C5BU+2C5CU+2C5DU+2C5E"
          \o "U+2C5FU+2C61U+026BU+1D7DU+027DU+2C68U+2C6AU+2C6CU+0251U+0271U+0250U+0252U+2C73U+2C76U+023FU+0240U+2C81U+2C83U+2C85U+2C87U+2C89U+2C8BU+2C8DU+2C8FU+2C91U+2C93U+2C95U+2C97U+2C99U+2C9BU+2C9DU+2C9F"
          \o "U+2CA1U+2CA3U+2CA5U+2CA7U+2CA9U+2CABU+2CADU+2CAFU+2CB1U+2CB3U+2CB5U+2CB7U+2CB9U+2CBBU+2CBDU+2CBFU+2CC1U+2CC3U+2CC5U+2CC7U+2CC9U+2CCBU+2CCDU+2CCFU+2CD1U+2CD3U+2CD5U+2CD7U+2CD9U+2CDBU+2CDDU+2CDF"
          \o "U+2CE1U+2CE3U+2CECU+2CEEU+2CF3U+A641U+A643U+A645U+A647U+A649U+A64BU+A64DU+A64FU+A651U+A653U+A655U+A657U+A659U+A65BU+A65DU+A65FU+A661U+A663U+A665U+A667U+A669U+A66BU+A66DU+A681U+A683U+A685U+A687"
          \o "U+A689U+A68BU+A68DU+A68FU+A691U+A693U+A695U+A697U+A699U+A69BU+A723U+A725U+A727U+A729U+A72BU+A72DU+A72FU+A733U+A735U+A737U+A739U+A73BU+A73DU+A73FU+A741U+A743U+A745U+A747U+A749U+A74BU+A74DU+A74F"
          \o "U+A751U+A753U+A755U+A757U+A759U+A75BU+A75DU+A75FU+A761U+A763U+A765U+A767U+A769U+A76BU+A76DU+A76FU+A77AU+A77CU+1D79U+A77FU+A781U+A783U+A785U+A787U+A78CU+0265U+A791U+A793U+A797U+A799U+A79BU+A79D"
          \o "U+A79FU+A7A1U+A7A3U+A7A5U+A7A7U+A7A9U+0266U+025CU+0261U+026CU+026AU+029EU+0287U+029DU+AB53U+A7B5U+A7B7U+A7B9U+A7BBU+A7BDU+A7BFU+A7C1U+A7C3U+A794U+0282U+1D8EU+A7C8U+A7CAU+0264U+A7CDU+A7CFU+A7D1"
          \o "U+A7D3U+A7D5U+A7D7U+A7D9U+A7DBU+019BU+A7F6U+FF41U+FF42U+FF43U+FF44U+FF45U+FF46U+FF47U+FF48U+FF49U+FF4AU+FF4BU+FF4CU+FF4DU+FF4EU+FF4FU+FF50U+FF51U+FF52U+FF53U+FF54U+FF55U+FF56U+FF57U+FF58U+FF59"
          \o "U+FF5A")
        \o <<"k">>

\* the code units with the property Cased that are not Case_Ignorable
Cased ==
    {"A", "B", "C", "D", "E", "F", "G", "H", "I", "J", "K", "L", "M", "N", "O", "P", "Q", "R", "S", "T", "U", "V", "W", "X", "Y", "Z", "a", "b", "c", "d", "e", "f", "g", "h", "i", "j", "k", "l", "m", "n", "o", "p", "q", "r", "s", "t", "u", "v", "w", "x", "y", "z"}
        \cup Range(codeUnits(
              "U+00AAU+00B5U+00BAU+00C0U+00C1U+00C2U+00C3U+00C4U+00C5U+00C6U+00C7U+00C8U+00C9U+00CAU+00CBU+00CCU+00CDU+00CEU+00CFU+00D0U+00D1U+00D2U+00D3U+00D4U+00D5U+00D6U+00D8U+00D9U+00DAU+00DBU+00DCU+00DD"
          \o "U+00DEU+00DFU+00E0U+00E1U+00E2U+00E3U+00E4U+00E5U+00E6U+00E7U+00E8U+00E9U+00EAU+00EBU+00ECU+00EDU+00EEU+00EFU+00F0U+00F1U+00F2U+00F3U+00F4U+00F5U+00F6U+00F8U+00F9U+00FAU+00FBU+00FCU+00FDU+00FE"
          \o "U+00FFU+0100U+0101U+0102U+0103U+0104U+0105U+0106U+0107U+0108U+0109U+010AU+010BU+010CU+010DU+010EU+010FU+0110U+0111U+0112U+0113U+0114U+0115U+0116U+0117U+0118U+0119U+011AU+011BU+011CU+011DU+011E"
          \o "U+011FU+0120U+0121U+0122U+0123U+0124U+0125U+0126U+0127U+0128U+0129U+012AU+012BU+012CU+012DU+012EU+012FU+0130U+0131U+0132U+0133U+0134U+0135U+0136U+0137U+0138U+0139U+013AU+013BU+013CU+013DU+013E"
          \o "U+013FU+0140U+0141U+0142U+0143U+0144U+0145U+0146U+0147U+0148U+0149U+014AU+014BU+014CU+014DU+014EU+014FU+0150U+0151U+0152U+0153U+0154U+0155U+0156U+0157U+0158U+0159U+015AU+015BU+015CU+015DU+015E"
          \o "U+015FU+0160U+0161U+0162U+0163U+0164U+0165U+0166U+0167U+0168U+0169U+016AU+016BU+016CU+016DU+016EU+016FU+0170U+0171U+0172U+0173U+0174U+0175U+0176U+0177U+0178U+0179U+017AU+017BU+017CU+017DU+017E"
          \o "U+017FU+0180U+0181U+0182U+0183U+0184U+0185U+0186U+0187U+0188U+0189U+018AU+018BU+018CU+018DU+018EU+018FU+0190U+0191U+0192U+0193U+0194U+0195U+0196U+0197U+0198U+0199U+019AU+019BU+019CU+019DU+019E"
          \o "U+019FU+01A0U+01A1U+01A2U+01A3U+01A4U+01A5U+01A6U+01A7U+01A8U+01A9U+01AAU+01ABU+01ACU+01ADU+01AEU+01AFU+01B0U+01B1U+01B2U+01B3U+01B4U+01B5U+01B6U+01B7U+01B8U+01B9U+01BAU+01BCU+01BDU+01BEU+01BF"
          \o "U+01C4U+01C5U+01C6U+01C7U+01C8U+01C9U+01CAU+01CBU+01CCU+01CDU+01CEU+01CFU+01D0U+01D1U+01D2U+01D3U+01D4U+01D5U+01D6U+01D7U+01D8U+01D9U+01DAU+01DBU+01DCU+01DDU+01DEU+01DFU+01E0U+01E1U+01E2U+01E3"
          \o "U+01E4U+01E5U+01E6U+01E7U+01E8U+01E9U+01EAU+01EBU+01ECU+01EDU+01EEU+01EFU+01F0U+01F1U+01F2U+01F3U+01F4U+01F5U+01F6U+01F7U+01F8U+01F9U+01FAU+01FBU+01FCU+01FDU+01FEU+01FFU+0200U+0201U+0202U+0203"
          \o "U+0204U+0205U+0206U+0207U+0208U+0209U+020AU+020BU+020CU+020DU+020EU+020FU+0210U+0211U+0212U+0213U+0214U+0215U+0216U+0217U+0218U+0219U+021AU+021BU+021CU+021DU+021EU+021FU+0220U+0221U+0222U+0223"
          \o "U+0224U+0225U+0226U+0227U+0228U+0229U+022AU+022BU+022CU+022DU+022EU+022FU+0230U+0231U+0232U+0233U+0234U+0235U+0236U+0237U+0238U+0239U+023AU+023BU+023CU+023DU+023EU+023FU+0240U+0241U+0242U+0243"
          \o "U+0244U+0245U+0246U+0247U+0248U+0249U+024AU+024BU+024CU+024DU+024EU+024FU+0250U+0251U+0252U+0253U+0254U+0255U+0256U+0257U+0258U+0259U+025AU+025BU+025CU+025DU+025EU+025FU+0260U+0261U+0262U+0263"
          \o "U+0264U+0265U+0266U+0267U+0268U+0269U+026AU+026BU+026CU+026DU+026EU+026FU+0270U+0271U+0272U+0273U+0274U+0275U+0276U+0277U+0278U+0279U+027AU+027BU+027CU+027DU+027EU+027FU+0280U+0281U+0282U+0283"
          \o "U+0284U+0285U+0286U+0287U+0288U+0289U+028AU+028BU+028CU+028DU+028EU+028FU+0290U+0291U+0292U+0293U+0296U+0297U+0298U+0299U+029AU+029BU+029CU+029DU+029EU+029FU+02A0U+02A1U+02A2U+02A3U+02A4U+02A5"
          \o "U+02A6U+02A7U+02A8U+02A9U+02AAU+02ABU+02ACU+02ADU+02AEU+02AFU+0370U+0371U+0372U+0373U+0376U+0377U+037BU+037CU+037DU+037FU+0386U+0388U+0389U+038AU+038CU+038EU+038FU+0390U+0391U+0392U+0393U+0394"
          \o "U+0395U+0396U+0397U+0398U+0399U+039AU+039BU+039CU+039DU+039EU+039FU+03A0U+03A1U+03A3U+03A4U+03A5U+03A6U+03A7U+03A8U+03A9U+03AAU+03ABU+03ACU+03ADU+03AEU+03AFU+03B0U+03B1U+03B2U+03B3U+03B4U+03B5"
          \o "U+03B6U+03B7U+03B8U+03B9U+03BAU+03BBU+03BCU+03BDU+03BEU+03BFU+03C0U+03C1U+03C2U+03C3U+03C4U+03C5U+03C6U+03C7U+03C8U+03C9U+03CAU+03CBU+03CCU+03CDU+03CEU+03CFU+03D0U+03D1U+03D2U+03D3U+03D4U+03D5"
          \o "U+03D6U+03D7U+03D8U+03D9U+03DAU+03DBU+03DCU+03DDU+03DEU+03DFU+03E0U+03E1U+03E2U+03E3U+03E4U+03E5U+03E6U+03E7U+03E8U+03E9U+03EAU+03EBU+03ECU+03EDU+03EEU+03EFU+03F0U+03F1U+03F2U+03F3U+03F4U+03F5"
          \o "U+03F7U+03F8U+03F9U+03FAU+03FBU+03FCU+03FDU+03FEU+03FFU+0400U+0401U+0402U+0403U+0404U+0405U+0406U+0407U+0408U+0409U+040AU+040BU+040CU+040DU+040EU+040FU+0410U+0411U+0412U+0413U+0414U+0415U+0416"
          \o "U+0417U+0418U+0419U+041AU+041BU+041CU+041DU+041EU+041FU+0420U+0421U+0422U+0423U+0424U+0425U+0426U+0427U+0428U+0429U+042AU+042BU+042CU+042DU+042EU+042FU+0430U+0431U+0432U+0433U+0434U+0435U+0436"
          \o "U+0437U+0438U+0439U+043AU+043BU+043CU+043DU+043EU+043FU+0440U+0441U+0442U+0443U+0444U+0445U+0446U+0447U+0448U+0449U+044AU+044BU+044CU+044DU+044EU+044FU+0450U+0451U+0452U+0453U+0454U+0455U+0456"
          \o "U+0457U+0458U+0459U+045AU+045BU+045CU+045DU+045EU+045FU+0460U+0461U+0462U+0463U+0464U+0465U+0466U+0467U+0468U+0469U+046AU+046BU+046CU+046DU+046EU+046FU+0470U+0471U+0472U+0473U+0474U+0475U+0476"
          \o "U+0477U+0478U+0479U+047AU+047BU+047CU+047DU+047EU+047FU+0480U+0481U+048AU+048BU+048CU+048DU+048EU+048FU+0490U+0491U+0492U+0493U+0494U+0495U+0496U+0497U+0498U+0499U+049AU+049BU+049CU+049DU+049E"
          \o "U+049FU+04A0U+04A1U+04A2U+04A3U+04A4U+04A5U+04A6U+04A7U+04A8U+04A9U+04AAU+04ABU+04ACU+04ADU+04AEU+04AFU+04B0U+04B1U+04B2U+04B3U+04B4U+04B5U+04B6U+04B7U+04B8U+04B9U+04BAU+04BBU+04BCU+04BDU+04BE"
          \o "U+04BFU+04C0U+04C1U+04C2U+04C3U+04C4U+04C5U+04C6U+04C7U+04C8U+04C9U+04CAU+04CBU+04CCU+04CDU+04CEU+04CFU+04D0U+04D1U+04D2U+04D3U+04D4U+04D5U+04D6U+04D7U+04D8U+04D9U+04DAU+04DBU+04DCU+04DDU+04DE"
          \o "U+04DFU+04E0U+04E1U+04E2U+04E3U+04E4U+04E5U+04E6U+04E7U+04E8U+04E9U+04EAU+04EBU+04ECU+04EDU+04EEU+04EFU+04F0U+04F1U+04F2U+04F3U+04F4U+04F5U+04F6U+04F7U+04F8U+04F9U+04FAU+04FBU+04FCU+04FDU+04FE"
          \o "U+04FFU+0500U+0501U+0502U+0503U+0504U+0505U+0506U+0507U+0508U+0509U+050AU+050BU+050CU+050DU+050EU+050FU+0510U+0511U+0512U+0513U+0514U+0515U+0516U+0517U+0518U+0519U+051AU+051BU+051CU+051DU+051E"
          \o "U+051FU+0520U+0521U+0522U+0523U+0524U+0525U+0526U+0527U+0528U+0529U+052AU+052BU+052CU+052DU+052EU+052FU+0531U+0532U+0533U+0534U+0535U+0536U+0537U+0538U+0539U+053AU+053BU+053CU+053DU+053EU+053F"
          \o "U+0540U+0541U+0542U+0543U+0544U+0545U+0546U+0547U+0548U+0549U+054AU+054BU+054CU+054DU+054EU+054FU+0550U+0551U+0552U+0553U+0554U+0555U+0556U+0560U+0561U+0562U+0563U+0564U+0565U+0566U+0567U+0568"
          \o "U+0569U+056AU+056BU+056CU+056DU+056EU+056FU+0570U+0571U+0572U+0573U+0574U+0575U+0576U+0577U+0578U+0579U+057AU+057BU+057CU+057DU+057EU+057FU+0580U+0581U+0582U+0583U+0584U+0585U+0586U+0587U+0588"
          \o "U+10A0U+10A1U+10A2U+10A3U+10A4U+10A5U+10A6U+10A7U+10A8U+10A9U+10AAU+10ABU+10ACU+10ADU+10AEU+10AFU+10B0U+10B1U+10B2U+10B3U+10B4U+10B5U+10B6U+10B7U+10B8U+10B9U+10BAU+10BBU+10BCU+10BDU+10BEU+10BF"
          \o "U+10C0U+10C1U+10C2U+10C3U+10C4U+10C5U+10C7U+10CDU+10D0U+10D1U+10D2U+10D3U+10D4U+10D5U+10D6U+10D7U+10D8U+10D9U+10DAU+10DBU+10DCU+10DDU+10DEU+10DFU+10E0U+10E1U+10E2U+10E3U+10E4U+10E5U+10E6U+10E7"
          \o "U+10E8U+10E9U+10EAU+10EBU+10ECU+10EDU+10EEU+10EFU+10F0U+10F1U+10F2U+10F3U+10F4U+10F5U+10F6U+10F7U+10F8U+10F9U+10FAU+10FDU+10FEU+10FFU+13A0U+13A1U+13A2U+13A3U+13A4U+13A5U+13A6U+13A7U+13A8U+13A9"
          \o "U+13AAU+13ABU+13ACU+13ADU+13AEU+13AFU+13B0U+13B1U+13B2U+13B3U+13B4U+13B5U+13B6U+13B7U+13B8U+13B9U+13BAU+13BBU+13BCU+13BDU+13BEU+13BFU+13C0U+13C1U+13C2U+13C3U+13C4U+13C5U+13C6U+13C7U+13C8U+13C9"
          \o "U+13CAU+13CBU+13CCU+13CDU+13CEU+13CFU+13D0U+13D1U+13D2U+13D3U+13D4U+13D5U+13D6U+13D7U+13D8U+13D9U+13DAU+13DBU+13DCU+13DDU+13DEU+13DFU+13E0U+13E1U+13E2U+13E3U+13E4U+13E5U+13E6U+13E7U+13E8U+13E9"
          \o "U+13EAU+13EBU+13ECU+13EDU+13EEU+13EFU+13F0U+13F1U+13F2U+13F3U+13F4U+13F5U+13F8U+13F9U+13FAU+13FBU+13FCU+13FDU+1C80U+1C81U+1C82U+1C83U+1C84U+1C85U+1C86U+1C87U+1C88U+1C89U+1C8AU+1C90U+1C91U+1C92"
          \o "U+1C93U+1C94U+1C95U+1C96U+1C97U+1C98U+1C99U+1C9AU+1C9BU+1C9CU+1C9DU+1C9EU+1C9FU+1CA0U+1CA1U+1CA2U+1CA3U+1CA4U+1CA5U+1CA6U+1CA7U+1CA8U+1CA9U+1CAAU+1CABU+1CACU+1CADU+1CAEU+1CAFU+1CB0U+1CB1U+1CB2"
          \o "U+1CB3U+1CB4U+1CB5U+1CB6U+1CB7U+1CB8U+1CB9U+1CBAU+1CBDU+1CBEU+1CBFU+1D00U+1D01U+1D02U+1D03U+1D04U+1D05U+1D06U+1D07U+1D08U+1D09U+1D0AU+1D0BU+1D0CU+1D0DU+1D0EU+1D0FU+1D10U+1D11U+1D12U+1D13U+1D14"
          \o "U+1D15U+1D16U+1D17U+1D18U+1D19U+1D1AU+1D1BU+1D1CU+1D1DU+1D1EU+1D1FU+1D20U+1D21U+1D22U+1D23U+1D24U+1D25U+1D26U+1D27U+1D28U+1D29U+1D2AU+1D2BU+1D6BU+1D6CU+1D6DU+1D6EU+1D6FU+1D70U+1D71U+1D72U+1D73"
          \o "U+1D74U+1D75U+1D76U+1D77U+1D79U+1D7AU+1D7BU+1D7CU+1D7DU+1D7EU+1D7FU+1D80U+1D81U+1D82U+1D83U+1D84U+1D85U+1D86U+1D87U+1D88U+1D89U+1D8AU+1D8BU+1D8CU+1D8DU+1D8EU+1D8FU+1D90U+1D91U+1D92U+1D93U+1D94"
          \o "U+1D95U+1D96U+1D97U+1D98U+1D99U+1D9AU+1E00U+1E01U+1E02U+1E03U+1E04U+1E05U+1E06U+1E07U+1E08U+1E09U+1E0AU+1E0BU+1E0CU+1E0DU+1E0EU+1E0FU+1E10U+1E11U+1E12U+1E13U+1E14U+1E15U+1E16U+1E17U+1E18U+1E19"
          \o "U+1E1AU+1E1BU+1E1CU+1E1DU+1E1EU+1E1FU+1E20U+1E21U+1E22U+1E23U+1E24U+1E25U+1E26U+1E27U+1E28U+1E29U+1E2AU+1E2BU+1E2CU+1E2DU+1E2EU+1E2FU+1E30U+1E31U+1E32U+1E33U+1E34U+1E35U+1E36U+1E37U+1E38U+1E39"
          \o "U+1E3AU+1E3BU+1E3CU+1E3DU+1E3EU+1E3FU+1E40U+1E41U+1E42U+1E43U+1E44U+1E45U+1E46U+1E47U+1E48U+1E49U+1E4AU+1E4BU+1E4CU+1E4DU+1E4EU+1E4FU+1E50U+1E51U+1E52U+1E53U+1E54U+1E55U+1E56U+1E57U+1E58U+1E59"
          \o "U+1E5AU+1E5BU+1E5CU+1E5DU+1E5EU+1E5FU+1E60U+1E61U+1E62U+1E63U+1E64U+1E65U+1E66U+1E67U+1E68U+1E69U+1E6AU+1E6BU+1E6CU+1E6DU+1E6EU+1E6FU+1E70U+1E71U+1E72U+1E73U+1E74U+1E75U+1E76U+1E77U+1E78U+1E79"
          \o "U+1E7AU+1E7BU+1E7CU+1E7DU+1E7EU+1E7FU+1E80U+1E81U+1E82U+1E83U+1E84U+1E85U+1E86U+1E87U+1E88U+1E89U+1E8AU+1E8BU+1E8CU+1E8DU+1E8EU+1E8FU+1E90U+1E91U+1E92U+1E93U+1E94U+1E95U+1E96U+1E97U+1E98U+1E99"
          \o "U+1E9AU+1E9BU+1E9CU+1E9DU+1E9EU+1E9FU+1EA0U+1EA1U+1EA2U+1EA3U+1EA4U+1EA5U+1EA6U+1EA7U+1EA8U+1EA9U+1EAAU+1EABU+1EACU+1EADU+1EAEU+1EAFU+1EB0U+1EB1U+1EB2U+1EB3U+1EB4U+1EB5U+1EB6U+1EB7U+1EB8U+1EB9"
          \o "U+1EBAU+1EBBU+1EBCU+1EBDU+1EBEU+1EBFU+1EC0U+1EC1U+1EC2U+1EC3U+1EC4U+1EC5U+1EC6U+1EC7U+1EC8U+1EC9U+1ECAU+1ECBU+1ECCU+1ECDU+1ECEU+1ECFU+1ED0U+1ED1U+1ED2U+1ED3U+1ED4U+1ED5U+1ED6U+1ED7U+1ED8U+1ED9"
          \o "U+1EDAU+1EDBU+1EDCU+1EDDU+1EDEU+1EDFU+1EE0U+1EE1U+1EE2U+1EE3U+1EE4U+1EE5U+1EE6U+1EE7U+1EE8U+1EE9U+1EEAU+1EEBU+1EECU+1EEDU+1EEEU+1EEFU+1EF0U+1EF1U+1EF2U+1EF3U+1EF4U+1EF5U+1EF6U+1EF7U+1EF8U+1EF9"
          \o "U+1EFAU+1EFBU+1EFCU+1EFDU+1EFEU+1EFFU+1F00U+1F01U+1F02U+1F03U+1F04U+1F05U+1F06U+1F07U+1F08U+1F09U+1F0AU+1F0BU+1F0CU+1F0DU+1F0EU+1F0FU+1F10U+1F11U+1F12U+1F13U+1F14U+1F15U+1F18U+1F19U+1F1AU+1F1B"
          \o "U+1F1CU+1F1DU+1F20U+1F21U+1F22U+1F23U+1F24U+1F25U+1F26U+1F27U+1F28U+1F29U+1F2AU+1F2BU+1F2CU+1F2DU+1F2EU+1F2FU+1F30U+1F31U+1F32U+1F33U+1F34U+1F35U+1F36U+1F37U+1F38U+1F39U+1F3AU+1F3BU+1F3CU+1F3D"
          \o "U+1F3EU+1F3FU+1F40U+1F41U+1F42U+1F43U+1F44U+1F45U+1F48U+1F49U+1F4AU+1F4BU+1F4CU+1F4DU+1F50U+1F51U+1F52U+1F53U+1F54U+1F55U+1F56U+1F57U+1F59U+1F5BU+1F5DU+1F5FU+1F60U+1F61U+1F62U+1F63U+1F64U+1F65"
          \o "U+1F66U+1F67U+1F68U+1F69U+1F6AU+1F6BU+1F6CU+1F6DU+1F6EU+1F6FU+1F70U+1F71U+1F72U+1F73U+1F74U+1F75U+1F76U+1F77U+1F78U+1F79U+1F7AU+1F7BU+1F7CU+1F7DU+1F80U+1F81U+1F82U+1F83U+1F84U+1F85U+1F86U+1F87"
          \o "U+1F88U+1F89U+1F8AU+1F8BU+1F8CU+1F8DU+1F8EU+1F8FU+1F90U+1F91U+1F92U+1F93U+1F94U+1F95U+1F96U+1F97U+1F98U+1F99U+1F9AU+1F9BU+1F9CU+1F9DU+1F9EU+1F9FU+1FA0U+1FA1U+1FA2U+1FA3U+1FA4U+1FA5U+1FA6U+1FA7"
          \o "U+1FA8U+1FA9U+1FAAU+1FABU+1FACU+1FADU+1FAEU+1FAFU+1FB0U+1FB1U+1FB2U+1FB3U+1FB4U+1FB6U+1FB7U+1FB8U+1FB9U+1FBAU+1FBBU+1FBCU+1FBEU+1FC2U+1FC3U+1FC4U+1FC6U+1FC7U+1FC8U+1FC9U+1FCAU+1FCBU+1FCCU+1FD0"
          \o "U+1FD1U+1FD2U+1FD3U+1FD6U+1FD7U+1FD8U+1FD9U+1FDAU+1FDBU+1FE0U+1FE1U+1FE2U+1FE3U+1FE4U+1FE5U+1FE6U+1FE7U+1FE8U+1FE9U+1FEAU+1FEBU+1FECU+1FF2U+1FF3U+1FF4U+1FF6U+1FF7U+1FF8U+1FF9U+1FFAU+1FFBU+1FFC"
          \o "U+2102U+2107U+210AU+210BU+210CU+210DU+210EU+210FU+2110U+2111U+2112U+2113U+2115U+2119U+211AU+211BU+211CU+211DU+2124U+2126U+2128U+212AU+212BU+212CU+212DU+212FU+2130U+2131U+2132U+2133U+2134U+2139"
          \o "U+213CU+213DU+213EU+213FU+2145U+2146U+2147U+2148U+2149U+214EU+2160U+2161U+2162U+2163U+2164U+2165U+2166U+2167U+2168U+2169U+216AU+216BU+216CU+216DU+216EU+216FU+2170U+2171U+2172U+2173U+2174U+2175"
          \o "U+2176U+2177U+2178U+2179U+217AU+217BU+217CU+217DU+217EU+217FU+2183U+2184U+24B6U+24B7U+24B8U+24B9U+24BAU+24BBU+24BCU+24BDU+24BEU+24BFU+24C0U+24C1U+24C2U+24C3U+24C4U+24C5U+24C6U+24C7U+24C8U+24C9"
          \o "U+24CAU+24CBU+24CCU+24CDU+24CEU+24CFU+24D0U+24D1U+24D2U+24D3U+24D4U+24D5U+24D6U+24D7U+24D8U+24D9U+24DAU+24DBU+24DCU+24DDU+24DEU+24DFU+24E0U+24E1U+24E2U+24E3U+24E4U+24E5U+24E6U+24E7U+24E8U+24E9"
          \o "U+2C00U+2C01U+2C02U+2C03U+2C04U+2C05U+2C06U+2C07U+2C08U+2C09U+2C0AU+2C0BU+2C0CU+2C0DU+2C0EU+2C0FU+2C10U+2C11U+2C12U+2C13U+2C14U+2C15U+2C16U+2C17U+2C18U+2C19U+2C1AU+2C1BU+2C1CU+2C1DU+2C1EU+2C1F"
          \o "U+2C20U+2C21U+2C22U+2C23U+2C24U+2C25U+2C26U+2C27U+2C28U+2C29U+2C2AU+2C2BU+2C2CU+2C2DU+2C2EU+2C2FU+2C30U+2C31U+2C32U+2C33U+2C34U+2C35U+2C36U+2C37U+2C38U+2C39U+2C3AU+2C3BU+2C3CU+2C3DU+2C3EU+2C3F"
          \o "U+2C40U+2C41U+2C42U+2C43U+2C44U+2C45U+2C46U+2C47U+2C48U+2C49U+2C4AU+2C4BU+2C4CU+2C4DU+2C4EU+2C4FU+2C50U+2C51U+2C52U+2C53U+2C54U+2C55U+2C56U+2C57U+2C58U+2C59U+2C5AU+2C5BU+2C5CU+2C5DU+2C5EU+2C5F"
          \o "U+2C60U+2C61U+2C62U+2C63U+2C64U+2C65U+2C66U+2C67U+2C68U+2C69U+2C6AU+2C6BU+2C6CU+2C6DU+2C6EU+2C6FU+2C70U+2C71U+2C72U+2C73U+2C74U+2C75U+2C76U+2C77U+2C78U+2C79U+2C7AU+2C7BU+2C7EU+2C7FU+2C80U+2C81"
          \o "U+2C82U+2C83U+2C84U+2C85U+2C86U+2C87U+2C88U+2C89U+2C8AU+2C8BU+2C8CU+2C8DU+2C8EU+2C8FU+2C90U+2C91U+2C92U+2C93U+2C94U+2C95U+2C96U+2C97U+2C98U+2C99U+2C9AU+2C9BU+2C9CU+2C9DU+2C9EU+2C9FU+2CA0U+2CA1"
          \o "U+2CA2U+2CA3U+2CA4U+2CA5U+2CA6U+2CA7U+2CA8U+2CA9U+2CAAU+2CABU+2CACU+2CADU+2CAEU+2CAFU+2CB0U+2CB1U+2CB2U+2CB3U+2CB4U+2CB5U+2CB6U+2CB7U+2CB8U+2CB9U+2CBAU+2CBBU+2CBCU+2CBDU+2CBEU+2CBFU+2CC0U+2CC1"
          \o "U+2CC2U+2CC3U+2CC4U+2CC5U+2CC6U+2CC7U+2CC8U+2CC9U+2CCAU+2CCBU+2CCCU+2CCDU+2CCEU+2CCFU+2CD0U+2CD1U+2CD2U+2CD3U+2CD4U+2CD5U+2CD6U+2CD7U+2CD8U+2CD9U+2CDAU+2CDBU+2CDCU+2CDDU+2CDEU+2CDFU+2CE0U+2CE1"
          \o "U+2CE2U+2CE3U+2CE4U+2CEBU+2CECU+2CEDU+2CEEU+2CF2U+2CF3U+2D00U+2D01U+2D02U+2D03U+2D04U+2D05U+2D06U+2D07U+2D08U+2D09U+2D0AU+2D0BU+2D0CU+2D0DU+2D0EU+2D0FU+2D10U+2D11U+2D12U+2D13U+2D14U+2D15U+2D16"
          \o "U+2D17U+2D18U+2D19U+2D1AU+2D1BU+2D1CU+2D1DU+2D1EU+2D1FU+2D20U+2D21U+2D22U+2D23U+2D24U+2D25U+2D27U+2D2DU+A640U+A641U+A642U+A643U+A644U+A645U+A646U+A647U+A648U+A649U+A64AU+A64BU+A64CU+A64DU+A64E"
          \o "U+A64FU+A650U+A651U+A652U+A653U+A654U+A655U+A656U+A657U+A658U+A659U+A65AU+A65BU+A65CU+A65DU+A65EU+A65FU+A660U+A661U+A662U+A663U+A664U+A665U+A666U+A667U+A668U+A669U+A66AU+A66BU+A66CU+A66DU+A680"
          \o "U+A681U+A682U+A683U+A684U+A685U+A686U+A687U+A688U+A689U+A68AU+A68BU+A68CU+A68DU+A68EU+A68FU+A690U+A691U+A692U+A693U+A694U+A695U+A696U+A697U+A698U+A699U+A69AU+A69BU+A722U+A723U+A724U+A725U+A726"
          \o "U+A727U+A728U+A729U+A72AU+A72BU+A72CU+A72DU+A72EU+A72FU+A730U+A731U+A732U+A733U+A734U+A735U+A736U+A737U+A738U+A739U+A73AU+A73BU+A73CU+A73DU+A73EU+A73FU+A740U+A741U+A742U+A743U+A744U+A745U+A746"
          \o "U+A747U+A748U+A749U+A74AU+A74BU+A74CU+A74DU+A74EU+A74FU+A750U+A751U+A752U+A753U+A754U+A755U+A756U+A757U+A758U+A759U+A75AU+A75BU+A75CU+A75DU+A75EU+A75FU+A760U+A761U+A762U+A763U+A764U+A765U+A766"
          \o "U+A767U+A768U+A769U+A76AU+A76BU+A76CU+A76DU+A76EU+A76FU+A771U+A772U+A773U+A774U+A775U+A776U+A777U+A778U+A779U+A77AU+A77BU+A77CU+A77DU+A77EU+A77FU+A780U+A781U+A782U+A783U+A784U+A785U+A786U+A787"
          \o "U+A78BU+A78CU+A78DU+A78EU+A790U+A791U+A792U+A793U+A794U+A795U+A796U+A797U+A798U+A799U+A79AU+A79BU+A79CU+A79DU+A79EU+A79FU+A7A0U+A7A1U+A7A2U+A7A3U+A7A4U+A7A5U+A7A6U+A7A7U+A7A8U+A7A9U+A7AAU+A7AB"
          \o "U+A7ACU+A7ADU+A7AEU+A7AFU+A7B0U+A7B1U+A7B2U+A7B3U+A7B4U+A7B5U+A7B6U+A7B7U+A7B8U+A7B9U+A7BAU+A7BBU+A7BCU+A7BDU+A7BEU+A7BFU+A7C0U+A7C1U+A7C2U+A7C3U+A7C4U+A7C5U+A7C6U+A7C7U+A7C8U+A7C9U+A7CAU+A7CB"
          \o "U+A7CCU+A7CDU+A7CEU+A7CFU+A7D0U+A7D1U+A7D2U+A7D3U+A7D4U+A7D5U+A7D6U+A7D7U+A7D8U+A7D9U+A7DAU+A7DBU+A7DCU+A7F5U+A7F6U+A7FAU+AB30U+AB31U+AB32U+AB33U+AB34U+AB35U+AB36U+AB37U+AB38U+AB39U+AB3AU+AB3B"
          \o "U+AB3CU+AB3DU+AB3EU+AB3FU+AB40U+AB41U+AB42U+AB43U+AB44U+AB45U+AB46U+AB47U+AB48U+AB49U+AB4AU+AB4BU+AB4CU+AB4DU+AB4EU+AB4FU+AB50U+AB51U+AB52U+AB53U+AB54U+AB55U+AB56U+AB57U+AB58U+AB59U+AB5AU+AB60"
          \o "U+AB61U+AB62U+AB63U+AB64U+AB65U+AB66U+AB67U+AB68U+AB70U+AB71U+AB72U+AB73U+AB74U+AB75U+AB76U+AB77U+AB78U+AB79U+AB7AU+AB7BU+AB7CU+AB7DU+AB7EU+AB7FU+AB80U+AB81U+AB82U+AB83U+AB84U+AB85U+AB86U+AB87"
          \o "U+AB88U+AB89U+AB8AU+AB8BU+AB8CU+AB8DU+AB8EU+AB8FU+AB90U+AB91U+AB92U+AB93U+AB94U+AB95U+AB96U+AB97U+AB98U+AB99U+AB9AU+AB9BU+AB9CU+AB9DU+AB9EU+AB9FU+ABA0U+ABA1U+ABA2U+ABA3U+ABA4U+ABA5U+ABA6U+ABA7"
          \o "U+ABA8U+ABA9U+ABAAU+ABABU+ABACU+ABADU+ABAEU+ABAFU+ABB0U+ABB1U+ABB2U+ABB3U+ABB4U+ABB5U+ABB6U+ABB7U+ABB8U+ABB9U+ABBAU+ABBBU+ABBCU+ABBDU+ABBEU+ABBFU+FB00U+FB01U+FB02U+FB03U+FB04U+FB05U+FB06U+FB13"
          \o "U+FB14U+FB15U+FB16U+FB17U+FF21U+FF22U+FF23U+FF24U+FF25U+FF26U+FF27U+FF28U+FF29U+FF2AU+FF2BU+FF2CU+FF2DU+FF2EU+FF2FU+FF30U+FF31U+FF32U+FF33U+FF34U+FF35U+FF36U+FF37U+FF38U+FF39U+FF3AU+FF41U+FF42"
          \o "U+FF43U+FF44U+FF45U+FF46U+FF47U+FF48U+FF49U+FF4AU+FF4BU+FF4CU+FF4DU+FF4EU+FF4FU+FF50U+FF51U+FF52U+FF53U+FF54U+FF55U+FF56U+FF57U+FF58U+FF59U+FF5A"))

\* the code units with the property Case_Ignorable
CaseIgnorable ==
    {"'", ".", ":", "^"}
        \cup Range(codeUnits(
              "U+0060U+00A8U+00ADU+00AFU+00B4U+00B7U+00B8U+02B0U+02B1U+02B2U+02B3U+02B4U+02B5U+02B6U+02B7U+02B8U+02B9U+02BAU+02BBU+02BCU+02BDU+02BEU+02BFU+02C0U+02C1U+02C2U+02C3U+02C4U+02C5U+02C6U+02C7U+02C8"
          \o "U+02C9U+02CAU+02CBU+02CCU+02CDU+02CEU+02CFU+02D0U+02D1U+02D2U+02D3U+02D4U+02D5U+02D6U+02D7U+02D8U+02D9U+02DAU+02DBU+02DCU+02DDU+02DEU+02DFU+02E0U+02E1U+02E2U+02E3U+02E4U+02E5U+02E6U+02E7U+02E8"
          \o "U+02E9U+02EAU+02EBU+02ECU+02EDU+02EEU+02EFU+02F0U+02F1U+02F2U+02F3U+02F4U+02F5U+02F6U+02F7U+02F8U+02F9U+02FAU+02FBU+02FCU+02FDU+02FEU+02FFU+0300U+0301U+0302U+0303U+0304U+0305U+0306U+0307U+0308"
          \o "U+0309U+030AU+030BU+030CU+030DU+030EU+030FU+0310U+0311U+0312U+0313U+0314U+0315U+0316U+0317U+0318U+0319U+031AU+031BU+031CU+031DU+031EU+031FU+0320U+0321U+0322U+0323U+0324U+0325U+0326U+0327U+0328"
          \o "U+0329U+032AU+032BU+032CU+032DU+032EU+032FU+0330U+0331U+0332U+0333U+0334U+0335U+0336U+0337U+0338U+0339U+033AU+033BU+033CU+033DU+033EU+033FU+0340U+0341U+0342U+0343U+0344U+0345U+0346U+0347U+0348"
          \o "U+0349U+034AU+034BU+034CU+034DU+034EU+034FU+0350U+0351U+0352U+0353U+0354U+0355U+0356U+0357U+0358U+0359U+035AU+035BU+035CU+035DU+035EU+035FU+0360U+0361U+0362U+0363U+0364U+0365U+0366U+0367U+0368"
          \o "U+0369U+036AU+036BU+036CU+036DU+036EU+036FU+0374U+0375U+037AU+0384U+0385U+0387U+0483U+0484U+0485U+0486U+0487U+0488U+0489U+0559U+055FU+0591U+0592U+0593U+0594U+0595U+0596U+0597U+0598U+0599U+059A"
          \o "U+059BU+059CU+059DU+059EU+059FU+05A0U+05A1U+05A2U+05A3U+05A4U+05A5U+05A6U+05A7U+05A8U+05A9U+05AAU+05ABU+05ACU+05ADU+05AEU+05AFU+05B0U+05B1U+05B2U+05B3U+05B4U+05B5U+05B6U+05B7U+05B8U+05B9U+05BA"
          \o "U+05BBU+05BCU+05BDU+05BFU+05C1U+05C2U+05C4U+05C5U+05C7U+05F4U+0600U+0601U+0602U+0603U+0604U+0605U+0610U+0611U+0612U+0613U+0614U+0615U+0616U+0617U+0618U+0619U+061AU+061CU+0640U+064BU+064CU+064D"
          \o "U+064EU+064FU+0650U+0651U+0652U+0653U+0654U+0655U+0656U+0657U+0658U+0659U+065AU+065BU+065CU+065DU+065EU+065FU+0670U+06D6U+06D7U+06D8U+06D9U+06DAU+06DBU+06DCU+06DDU+06DFU+06E0U+06E1U+06E2U+06E3"
          \o "U+06E4U+06E5U+06E6U+06E7U+06E8U+06EAU+06EBU+06ECU+06EDU+070FU+0711U+0730U+0731U+0732U+0733U+0734U+0735U+0736U+0737U+0738U+0739U+073AU+073BU+073CU+073DU+073EU+073FU+0740U+0741U+0742U+0743U+0744"
          \o "U+0745U+0746U+0747U+0748U+0749U+074AU+07A6U+07A7U+07A8U+07A9U+07AAU+07ABU+07ACU+07ADU+07AEU+07AFU+07B0U+07EBU+07ECU+07EDU+07EEU+07EFU+07F0U+07F1U+07F2U+07F3U+07F4U+07F5U+07FAU+07FDU+0816U+0817"
          \o "U+0818U+0819U+081AU+081BU+081CU+081DU+081EU+081FU+0820U+0821U+0822U+0823U+0824U+0825U+0826U+0827U+0828U+0829U+082AU+082BU+082CU+082DU+0859U+085AU+085BU+0888U+0890U+0891U+0897U+0898U+0899U+089A"
          \o "U+089BU+089CU+089DU+089EU+089FU+08C9U+08CAU+08CBU+08CCU+08CDU+08CEU+08CFU+08D0U+08D1U+08D2U+08D3U+08D4U+08D5U+08D6U+08D7U+08D8U+08D9U+08DAU+08DBU+08DCU+08DDU+08DEU+08DFU+08E0U+08E1U+08E2U+08E3"
          \o "U+08E4U+08E5U+08E6U+08E7U+08E8U+08E9U+08EAU+08EBU+08ECU+08EDU+08EEU+08EFU+08F0U+08F1U+08F2U+08F3U+08F4U+08F5U+08F6U+08F7U+08F8U+08F9U+08FAU+08FBU+08FCU+08FDU+08FEU+08FFU+0900U+0901U+0902U+093A"
          \o "U+093CU+0941U+0942U+0943U+0944U+0945U+0946U+0947U+0948U+094DU+0951U+0952U+0953U+0954U+0955U+0956U+0957U+0962U+0963U+0971U+0981U+09BCU+09C1U+09C2U+09C3U+09C4U+09CDU+09E2U+09E3U+09FEU+0A01U+0A02"
          \o "U+0A3CU+0A41U+0A42U+0A47U+0A48U+0A4BU+0A4CU+0A4DU+0A51U+0A70U+0A71U+0A75U+0A81U+0A82U+0ABCU+0AC1U+0AC2U+0AC3U+0AC4U+0AC5U+0AC7U+0AC8U+0ACDU+0AE2U+0AE3U+0AFAU+0AFBU+0AFCU+0AFDU+0AFEU+0AFFU+0B01"
          \o "U+0B3CU+0B3FU+0B41U+0B42U+0B43U+0B44U+0B4DU+0B55U+0B56U+0B62U+0B63U+0B82U+0BC0U+0BCDU+0C00U+0C04U+0C3CU+0C3EU+0C3FU+0C40U+0C46U+0C47U+0C48U+0C4AU+0C4BU+0C4CU+0C4DU+0C55U+0C56U+0C62U+0C63U+0C81"
          \o "U+0CBCU+0CBFU+0CC6U+0CCCU+0CCDU+0CE2U+0CE3U+0D00U+0D01U+0D3BU+0D3CU+0D41U+0D42U+0D43U+0D44U+0D4DU+0D62U+0D63U+0D81U+0DCAU+0DD2U+0DD3U+0DD4U+0DD6U+0E31U+0E34U+0E35U+0E36U+0E37U+0E38U+0E39U+0E3A"
          \o "U+0E46U+0E47U+0E48U+0E49U+0E4AU+0E4BU+0E4CU+0E4DU+0E4EU+0EB1U+0EB4U+0EB5U+0EB6U+0EB7U+0EB8U+0EB9U+0EBAU+0EBBU+0EBCU+0EC6U+0EC8U+0EC9U+0ECAU+0ECBU+0ECCU+0ECDU+0ECEU+0F18U+0F19U+0F35U+0F37U+0F39"
          \o "U+0F71U+0F72U+0F73U+0F74U+0F75U+0F76U+0F77U+0F78U+0F79U+0F7AU+0F7BU+0F7CU+0F7DU+0F7EU+0F80U+0F81U+0F82U+0F83U+0F84U+0F86U+0F87U+0F8DU+0F8EU+0F8FU+0F90U+0F91U+0F92U+0F93U+0F94U+0F95U+0F96U+0F97"
          \o "U+0F99U+0F9AU+0F9BU+0F9CU+0F9DU+0F9EU+0F9FU+0FA0U+0FA1U+0FA2U+0FA3U+0FA4U+0FA5U+0FA6U+0FA7U+0FA8U+0FA9U+0FAAU+0FABU+0FACU+0FADU+0FAEU+0FAFU+0FB0U+0FB1U+0FB2U+0FB3U+0FB4U+0FB5U+0FB6U+0FB7U+0FB8"
          \o "U+0FB9U+0FBAU+0FBBU+0FBCU+0FC6U+102DU+102EU+102FU+1030U+1032U+1033U+1034U+1035U+1036U+1037U+1039U+103AU+103DU+103EU+1058U+1059U+105EU+105FU+1060U+1071U+1072U+1073U+1074U+1082U+1085U+1086U+108D"
          \o "U+109DU+10FCU+135DU+135EU+135FU+1712U+1713U+1714U+1732U+1733U+1752U+1753U+1772U+1773U+17B4U+17B5U+17B7U+17B8U+17B9U+17BAU+17BBU+17BCU+17BDU+17C6U+17C9U+17CAU+17CBU+17CCU+17CDU+17CEU+17CFU+17D0"
          \o "U+17D1U+17D2U+17D3U+17D7U+17DDU+180BU+180CU+180DU+180EU+180FU+1843U+1885U+1886U+18A9U+1920U+1921U+1922U+1927U+1928U+1932U+1939U+193AU+193BU+1A17U+1A18U+1A1BU+1A56U+1A58U+1A59U+1A5AU+1A5BU+1A5C"
          \o "U+1A5DU+1A5EU+1A60U+1A62U+1A65U+1A66U+1A67U+1A68U+1A69U+1A6AU+1A6BU+1A6CU+1A73U+1A74U+1A75U+1A76U+1A77U+1A78U+1A79U+1A7AU+1A7BU+1A7CU+1A7FU+1AA7U+1AB0U+1AB1U+1AB2U+1AB3U+1AB4U+1AB5U+1AB6U+1AB7"
          \o "U+1AB8U+1AB9U+1ABAU+1ABBU+1ABCU+1ABDU+1ABEU+1ABFU+1AC0U+1AC1U+1AC2U+1AC3U+1AC4U+1AC5U+1AC6U+1AC7U+1AC8U+1AC9U+1ACAU+1ACBU+1ACCU+1ACDU+1ACEU+1ACFU+1AD0U+1AD1U+1AD2U+1AD3U+1AD4U+1AD5U+1AD6U+1AD7"
          \o "U+1AD8U+1AD9U+1ADAU+1ADBU+1ADCU+1ADDU+1AE0U+1AE1U+1AE2U+1AE3U+1AE4U+1AE5U+1AE6U+1AE7U+1AE8U+1AE9U+1AEAU+1AEBU+1B00U+1B01U+1B02U+1B03U+1B34U+1B36U+1B37U+1B38U+1B39U+1B3AU+1B3CU+1B42U+1B6BU+1B6C"
          \o "U+1B6DU+1B6EU+1B6FU+1B70U+1B71U+1B72U+1B73U+1B80U+1B81U+1BA2U+1BA3U+1BA4U+1BA5U+1BA8U+1BA9U+1BABU+1BACU+1BADU+1BE6U+1BE8U+1BE9U+1BEDU+1BEFU+1BF0U+1BF1U+1C2CU+1C2DU+1C2EU+1C2FU+1C30U+1C31U+1C32"
          \o "U+1C33U+1C36U+1C37U+1C78U+1C79U+1C7AU+1C7BU+1C7CU+1C7DU+1CD0U+1CD1U+1CD2U+1CD4U+1CD5U+1CD6U+1CD7U+1CD8U+1CD9U+1CDAU+1CDBU+1CDCU+1CDDU+1CDEU+1CDFU+1CE0U+1CE2U+1CE3U+1CE4U+1CE5U+1CE6U+1CE7U+1CE8"
          \o "U+1CEDU+1CF4U+1CF8U+1CF9U+1D2CU+1D2DU+1D2EU+1D2FU+1D30U+1D31U+1D32U+1D33U+1D34U+1D35U+1D36U+1D37U+1D38U+1D39U+1D3AU+1D3BU+1D3CU+1D3DU+1D3EU+1D3FU+1D40U+1D41U+1D42U+1D43U+1D44U+1D45U+1D46U+1D47"
          \o "U+1D48U+1D49U+1D4AU+1D4BU+1D4CU+1D4DU+1D4EU+1D4FU+1D50U+1D51U+1D52U+1D53U+1D54U+1D55U+1D56U+1D57U+1D58U+1D59U+1D5AU+1D5BU+1D5CU+1D5DU+1D5EU+1D5FU+1D60U+1D61U+1D62U+1D63U+1D64U+1D65U+1D66U+1D67"
          \o "U+1D68U+1D69U+1D6AU+1D78U+1D9BU+1D9CU+1D9DU+1D9EU+1D9FU+1DA0U+1DA1U+1DA2U+1DA3U+1DA4U+1DA5U+1DA6U+1DA7U+1DA8U+1DA9U+1DAAU+1DABU+1DACU+1DADU+1DAEU+1DAFU+1DB0U+1DB1U+1DB2U+1DB3U+1DB4U+1DB5U+1DB6"
          \o "U+1DB7U+1DB8U+1DB9U+1DBAU+1DBBU+1DBCU+1DBDU+1DBEU+1DBFU+1DC0U+1DC1U+1DC2U+1DC3U+1DC4U+1DC5U+1DC6U+1DC7U+1DC8U+1DC9U+1DCAU+1DCBU+1DCCU+1DCDU+1DCEU+1DCFU+1DD0U+1DD1U+1DD2U+1DD3U+1DD4U+1DD5U+1DD6"
          \o "U+1DD7U+1DD8U+1DD9U+1DDAU+1DDBU+1DDCU+1DDDU+1DDEU+1DDFU+1DE0U+1DE1U+1DE2U+1DE3U+1DE4U+1DE5U+1DE6U+1DE7U+1DE8U+1DE9U+1DEAU+1DEBU+1DECU+1DEDU+1DEEU+1DEFU+1DF0U+1DF1U+1DF2U+1DF3U+1DF4U+1DF5U+1DF6"
          \o "U+1DF7U+1DF8U+1DF9U+1DFAU+1DFBU+1DFCU+1DFDU+1DFEU+1DFFU+1FBDU+1FBFU+1FC0U+1FC1U+1FCDU+1FCEU+1FCFU+1FDDU+1FDEU+1FDFU+1FEDU+1FEEU+1FEFU+1FFDU+1FFEU+200BU+200CU+200DU+200EU+200FU+2018U+2019U+2024"
          \o "U+2027U+202AU+202BU+202CU+202DU+202EU+2060U+2061U+2062U+2063U+2064U+2066U+2067U+2068U+2069U+206AU+206BU+206CU+206DU+206EU+206FU+2071U+207FU+2090U+2091U+2092U+2093U+2094U+2095U+2096U+2097U+2098"
          \o "U+2099U+209AU+209BU+209CU+20D0U+20D1U+20D2U+20D3U+20D4U+20D5U+20D6U+20D7U+20D8U+20D9U+20DAU+20DBU+20DCU+20DDU+20DEU+20DFU+20E0U+20E1U+20E2U+20E3U+20E4U+20E5U+20E6U+20E7U+20E8U+20E9U+20EAU+20EB"
          \o "U+20ECU+20EDU+20EEU+20EFU+20F0U+2C7CU+2C7DU+2CEFU+2CF0U+2CF1U+2D6FU+2D7FU+2DE0U+2DE1U+2DE2U+2DE3U+2DE4U+2DE5U+2DE6U+2DE7U+2DE8U+2DE9U+2DEAU+2DEBU+2DECU+2DEDU+2DEEU+2DEFU+2DF0U+2DF1U+2DF2U+2DF3"
          \o "U+2DF4U+2DF5U+2DF6U+2DF7U+2DF8U+2DF9U+2DFAU+2DFBU+2DFCU+2DFDU+2DFEU+2DFFU+2E2FU+3005U+302AU+302BU+302CU+302DU+3031U+3032U+3033U+3034U+3035U+303BU+3099U+309AU+309BU+309CU+309DU+309EU+30FCU+30FD"
          \o "U+30FEU+A015U+A4F8U+A4F9U+A4FAU+A4FBU+A4FCU+A4FDU+A60CU+A66FU+A670U+A671U+A672U+A674U+A675U+A676U+A677U+A678U+A679U+A67AU+A67BU+A67CU+A67DU+A67FU+A69CU+A69DU+A69EU+A69FU+A6F0U+A6F1U+A700U+A701"
          \o "U+A702U+A703U+A704U+A705U+A706U+A707U+A708U+A709U+A70AU+A70BU+A70CU+A70DU+A70EU+A70FU+A710U+A711U+A712U+A713U+A714U+A715U+A716U+A717U+A718U+A719U+A71AU+A71BU+A71CU+A71DU+A71EU+A71FU+A720U+A721"
          \o "U+A770U+A788U+A789U+A78AU+A7F1U+A7F2U+A7F3U+A7F4U+A7F8U+A7F9U+A802U+A806U+A80BU+A825U+A826U+A82CU+A8C4U+A8C5U+A8E0U+A8E1U+A8E2U+A8E3U+A8E4U+A8E5U+A8E6U+A8E7U+A8E8U+A8E9U+A8EAU+A8EBU+A8ECU+A8ED"
          \o "U+A8EEU+A8EFU+A8F0U+A8F1U+A8FFU+A926U+A927U+A928U+A929U+A92AU+A92BU+A92CU+A92DU+A947U+A948U+A949U+A94AU+A94BU+A94CU+A94DU+A94EU+A94FU+A950U+A951U+A980U+A981U+A982U+A9B3U+A9B6U+A9B7U+A9B8U+A9B9"
          \o "U+A9BCU+A9BDU+A9CFU+A9E5U+A9E6U+AA29U+AA2AU+AA2BU+AA2CU+AA2DU+AA2EU+AA31U+AA32U+AA35U+AA36U+AA43U+AA4CU+AA70U+AA7CU+AAB0U+AAB2U+AAB3U+AAB4U+AAB7U+AAB8U+AABEU+AABFU+AAC1U+AADDU+AAECU+AAEDU+AAF3"
          \o "U+AAF4U+AAF6U+AB5BU+AB5CU+AB5DU+AB5EU+AB5FU+AB69U+AB6AU+AB6BU+ABE5U+ABE8U+ABEDU+FB1EU+FBB2U+FBB3U+FBB4U+FBB5U+FBB6U+FBB7U+FBB8U+FBB9U+FBBAU+FBBBU+FBBCU+FBBDU+FBBEU+FBBFU+FBC0U+FBC1U+FBC2U+FE00"
          \o "U+FE01U+FE02U+FE03U+FE04U+FE05U+FE06U+FE07U+FE08U+FE09U+FE0AU+FE0BU+FE0CU+FE0DU+FE0EU+FE0FU+FE13U+FE20U+FE21U+FE22U+FE23U+FE24U+FE25U+FE26U+FE27U+FE28U+FE29U+FE2AU+FE2BU+FE2CU+FE2DU+FE2EU+FE2F"
          \o "U+FE52U+FE55U+FEFFU+FF07U+FF0EU+FF1AU+FF3EU+FF40U+FF70U+FF9EU+FF9FU+FFE3U+FFF9U+FFFAU+FFFB"))

LowerOf ==
    [c \in {Upper[i] : i \in 1..Len(Upper)} \cup {"U+0130"} |->
        IF c = "U+0130" THEN <<"i", "U+0307">>
        ELSE <<Lower[CHOOSE i \in 1..Len(Upper) : Upper[i] = c]>>]

toLowerCaseChar(c) == IF c \in DOMAIN LowerOf THEN LowerOf[c] ELSE <<c>>

\* the condition Final_Sigma for the capital sigma at s[i]: a cased letter
\* before it and none after it, case-ignorable characters skipped
finalSigma(s, i) ==
    LET before == {j \in 1..(i - 1) : s[j] \notin CaseIgnorable}
        after == {j \in (i + 1)..Len(s) : s[j] \notin CaseIgnorable}
    IN  /\ before # {}
        /\ s[SetMax(before)] \in Cased
        /\ after # {} => s[SetMin(after)] \notin Cased

\* the lower case of s[i] where it stands
toLowerCaseAt(s, i) ==
    IF s[i] = "U+03A3"
    THEN IF finalSigma(s, i) THEN <<"U+03C2">> ELSE <<"U+03C3">>
    ELSE toLowerCaseChar(s[i])

RECURSIVE toLowerCaseFrom(_, _)
toLowerCaseFrom(s, i) ==
    IF i > Len(s) THEN <<>>
    ELSE toLowerCaseAt(s, i) \o toLowerCaseFrom(s, i + 1)

\* s.toLowerCase(), for a string of code units of the Basic Multilingual
\* Plane without surrogates
toLowerCase(s) ==
    IF \E i \in 1..Len(s) : s[i] \in {"U+0130", "U+03A3"}
    THEN toLowerCaseFrom(s, 1)
    ELSE [i \in 1..Len(s) |-> toLowerCaseChar(s[i])[1]]

trim(s) ==
    LET solid == {i \in 1..Len(s) : ~IsSpace(s[i])}
    IN  IF solid = {} THEN <<>> ELSE SubSeq(s, SetMin(solid), SetMax(solid))

includes(s, sub) ==
    \E i \in 0..(Len(s) - Len(sub)) : SubSeq(s, i + 1, i + Len(sub)) = sub

startsWith(s, sub) ==
    Len(s) >= Len(sub) /\ SubSeq(s, 1, Len(sub)) = sub

\* s.substring(0, n)
substring0(s, n) == SubSeq(s, 1, MathMin(n, Len(s)))

\* a.slice(0, n) on an array
slice0(a, n) == SubSeq(a, 1, MathMin(n, Len(a)))

\* s.split(c) for a one-character separator c
split(s, c) ==
    LET pos == {i \in 1..Len(s) : s[i] = c}
        n == Cardinality(pos)
        nth(k) == CHOOSE p \in pos : Cardinality({q \in pos : q < p}) = k - 1
        from(k) == IF k = 1 THEN 1 ELSE nth(k - 1) + 1
        to(k) == IF k = n + 1 THEN Len(s) ELSE nth(k) - 1
    IN  [k \in 1..(n + 1) |-> SubSeq(s, from(k), to(k))]

\* s.split(/[.!?]+/): the pieces between maximal runs of terminators
splitSentences(s) ==
    LET isT(i) == s[i] \in {".", "!", "?"}
        starts == {i \in 1..Len(s) : ~isT(i) /\ (i = 1 \/ isT(i - 1))}
        n == Cardinality(starts)
        nth(k) == CHOOSE p \in starts : Cardinality({q \in starts : q < p}) = k - 1
        endOf(b) ==
            LET stops == {j \in b..Len(s) : isT(j)}
            IN  IF stops = {} THEN Len(s) ELSE SetMin(stops) - 1
        runs == [k \in 1..n |-> SubSeq(s, nth(k), endOf(nth(k)))]
        lead == IF Len(s) = 0 \/ isT(1) THEN << <<>> >> ELSE <<>>
        trail == IF Len(s) > 0 /\ isT(Len(s)) THEN << <<>> >> ELSE <<>>
    IN  lead \o runs \o trail

\* s.replace(/[""]/g, '')
removeDoubleQuotes(s) == SelectSeq(s, LAMBDA c : c # "\"")

\* line.replace(/^[-*\d.]+\s*/, '')
stripLeadingMarker(line) ==
    LET isMarker(c) == c \in ({"-", "*", "."} \cup Digits)
        rest == {i \in 1..Len(line) : ~isMarker(line[i])}
        k == IF rest = {} THEN Len(line) + 1 ELSE SetMin(rest)
        solid == {i \in k..Len(line) : ~IsSpace(line[i])}
        j == IF solid = {} THEN Len(line) + 1 ELSE SetMin(solid)
    IN  IF k = 1 THEN line ELSE SubSeq(line, j, Len(line))

\* s.match(/^\d+\./)
matchesNumbered(s) ==
    LET rest == {i \in 1..Len(s) : s[i] \notin Digits}
    IN  rest # {} /\ SetMin(rest) > 1 /\ s[SetMin(rest)] = "."

\* A Number that is a non-negative integer is written as its decimal
\* digits, without leading zeros, and Infinity as the word: a Number is not
\* bounded by the integers the arithmetic here holds.
Infinity == <<"I", "n", "f", "i", "n", "i", "t", "y">>

DigitChars == <<"0", "1", "2", "3", "4", "5", "6", "7", "8", "9">>

\* the Number of a natural number
RECURSIVE NumberOf(_)
NumberOf(n) ==
    IF n < 10 THEN <<DigitChars[n + 1]>>
    ELSE NumberOf(n \div 10) \o <<DigitChars[(n % 10) + 1]>>

\* the natural number of a Number below 10^9
RECURSIVE digitsValue(_)
digitsValue(ds) ==
    IF Len(ds) = 0 THEN 0
    ELSE 10 * digitsValue(SubSeq(ds, 1, Len(ds) - 1)) + DigitValue(ds[Len(ds)])

\* a < b for two integers in decimal digits
lessThan(a, b) ==
    \/ Len(a) < Len(b)
    \/ /\ Len(a) = Len(b)
       /\ \E i \in 1..Len(a) :
             /\ DigitValue(a[i]) < DigitValue(b[i])
             /\ \A j \in 1..(i - 1) : a[j] = b[j]

isOdd(a) == DigitValue(a[Len(a)]) % 2 = 1

\* a / 2, rounded down
halve(a) ==
    LET q == [i \in 1..Len(a) |->
                 DigitChars[(((IF i = 1 THEN 0 ELSE DigitValue(a[i - 1]) % 2) * 10
                               + DigitValue(a[i])) \div 2) + 1]]
    IN  IF Len(q) > 1 /\ q[1] = "0" THEN Tail(q) ELSE q \o <<>>

\* 2 * a
double(a) ==
    LET d == [i \in 1..Len(a) |->
                 DigitChars[(((2 * DigitValue(a[i])) % 10)
                              + (IF i < Len(a) /\ DigitValue(a[i + 1]) >= 5
                                 THEN 1 ELSE 0)) + 1]]
    IN  IF DigitValue(a[1]) >= 5 THEN <<"1">> \o d ELSE d \o <<>>

\* a + 1
increment(a) ==
    LET low == {i \in 1..Len(a) : a[i] # "9"}
        k == IF low = {} THEN 0 ELSE SetMax(low)
        d == [i \in 1..Len(a) |->
                 IF i < k THEN a[i]
                 ELSE IF i = k THEN DigitChars[DigitValue(a[i]) + 2]
                 ELSE "0"]
    IN  IF k = 0 THEN <<"1">> \o d ELSE d \o <<>>

\* 2^53: every integer up to it is a Number
TwoTo53 ==
    <<"9", "0", "0", "7", "1", "9", "9", "2", "5", "4", "7", "4", "0", "9",
      "9", "2">>

\* 2^69
TwoTo69 ==
    <<"5", "9", "0", "2", "9", "5", "8", "1", "0", "3", "5", "8", "7", "0",
      "5", "6", "5", "1", "7", "1", "2">>

\* the largest exponent of a Number with a significand of 53 bits
MaxExponent == 971

\* a / 2^n, rounded down
RECURSIVE halveTimes(_, _)
halveTimes(a, n) == IF n = 0 THEN a ELSE halveTimes(halve(a), n - 1)

\* a * 2^n
RECURSIVE doubleTimes(_, _)
doubleTimes(a, n) == IF n = 0 THEN a ELSE doubleTimes(double(a), n - 1)

\* a / 2^16, rounded down
halve16(a) == halveTimes(a, 16)

\* a * 2^16
double16(a) == doubleTimes(a, 16)

\* a % 2^16, which the last 16 digits of a decide
RECURSIVE low16(_)
low16(a) ==
    IF Len(a) = 0 THEN 0
    ELSE LET ds == SubSeq(a, MathMax(1, Len(a) - 15), Len(a))
         IN  (10 * low16(SubSeq(ds, 1, Len(ds) - 1)) + DigitValue(ds[Len(ds)]))
                 % 65536

\* a halved until it is below 2^53, 16 times at once while it is 2^69 or
\* more: q is what is left, e the number of halvings, half the bit that
\* was dropped last and sticky whether a bit dropped before it was set
RECURSIVE significand(_, _, _, _)
significand(a, e, half, sticky) ==
    IF lessThan(a, TwoTo53)
    THEN [q |-> a, e |-> e, half |-> half, sticky |-> sticky]
    ELSE IF lessThan(a, TwoTo69)
    THEN significand(halve(a), e + 1, isOdd(a), sticky \/ half)
    ELSE significand(halve16(a), e + 16, low16(a) >= 32768,
                     sticky \/ half \/ low16(a) % 32768 # 0)

\* a * 2^e
RECURSIVE scale(_, _)
scale(a, e) ==
    IF e = 0 \/ a = <<"0">> THEN a
    ELSE IF e < 16 THEN scale(double(a), e - 1)
    ELSE scale(double16(a), e - 16)

\* the Number nearest to the integer a, ties to the even significand
toNumber(a) ==
    LET s == significand(a, 0, FALSE, FALSE)
        q == IF s.half /\ (s.sticky \/ isOdd(s.q)) THEN increment(s.q) ELSE s.q
    IN  IF s.e > MaxExponent \/ (s.e = MaxExponent /\ q = TwoTo53) THEN Infinity
        ELSE scale(q, s.e)

\* parseInt(ds) for a run of decimal digits ds, as line.match(/(\d+)/) gives
parseInt(ds) ==
    LET solid == {i \in 1..Len(ds) : ds[i] # "0"}
        sig == IF solid = {} THEN <<"0">> ELSE SubSeq(ds, SetMin(solid), Len(ds))
    IN  IF Len(sig) > 309 THEN Infinity ELSE toNumber(sig)

\* line.match(/(\d+)/): the first maximal run of digits, <<>> when none
firstDigits(s) ==
    LET ds == {i \in 1..Len(s) : s[i] \in Digits}
        b == SetMin(ds)
        stops == {j \in b..Len(s) : s[j] \notin Digits}
        e == IF stops = {} THEN Len(s) ELSE SetMin(stops) - 1
    IN  IF ds = {} THEN <<>> ELSE SubSeq(s, b, e)

repeat(s, n) == [i \in 1..(n * Len(s)) |-> s[((i - 1) % Len(s)) + 1]]

RECURSIVE join(_, _)
join(parts, sep) ==
    IF Len(parts) = 0 THEN <<>>
    ELSE IF Len(parts) = 1 THEN parts[1]
    ELSE parts[1] \o sep \o join(Tail(parts), sep)

(***************************************************************************)
(* String literals of the source                                           *)
(***************************************************************************)
S_keyPoints ==
    <<"k", "e", "y", " ", "p", "o", "i", "n", "t", "s">>
S_mainPoints ==
    <<"m", "a", "i", "n", " ", "p", "o", "i", "n", "t", "s">>
S_quotes ==
    <<"q", "u", "o", "t", "e", "s">>
S_notableQuotes ==
    <<"n", "o", "t", "a", "b", "l", "e", " ", "q", "u", "o", "t", "e", "s">>
S_sentiment ==
    <<"s", "e", "n", "t", "i", "m", "e", "n", "t">>
S_positive ==
    <<"p", "o", "s", "i", "t", "i", "v", "e">>
S_negative ==
    <<"n", "e", "g", "a", "t", "i", "v", "e">>
S_readingTime ==
    <<"r", "e", "a", "d", "i", "n", "g", " ", "t", "i", "m", "e">>
S_http ==
    <<"h", "t", "t", "p">>
S_ellipsis ==
    <<".", ".", ".">>
P_MainDiscussionPoints ==
    <<"M", "a", "i", "n", " ", "d", "i", "s", "c", "u", "s", "s", "i",
          "o", "n", " ", "p", "o", "i", "n", "t", "s">>
P_KeyStatementFromThread ==
    <<"K", "e", "y", " ", "s", "t", "a", "t", "e", "m", "e", "n", "t",
          " ", "f", "r", "o", "m", " ", "t", "h", "r", "e", "a", "d">>
P_NoContentFound ==
    <<"N", "o", " ", "c", "o", "n", "t", "e", "n", "t", " ", "f", "o",
          "u", "n", "d", " ", "t", "o", " ", "s", "u", "m", "m", "a",
          "r", "i", "z", "e">>
P_NoQuotesAvailable ==
    <<"N", "o", " ", "q", "u", "o", "t", "e", "s", " ", "a", "v", "a",
          "i", "l", "a", "b", "l", "e">>
P_ThreadContentAnalysis ==
    <<"T", "h", "r", "e", "a", "d", " ", "c", "o", "n", "t", "e", "n",
          "t", " ", "a", "n", "a", "l", "y", "s", "i", "s">>
P_KeyInsightsFromDiscussion ==
    <<"K", "e", "y", " ", "i", "n", "s", "i", "g", "h", "t", "s", " ",
          "f", "r", "o", "m", " ", "d", "i", "s", "c", "u", "s", "s",
          "i", "o", "n">>
P_AIGeneratedSummary ==
    <<"A", "I", "-", "g", "e", "n", "e", "r", "a", "t", "e", "d", " ",
          "s", "u", "m", "m", "a", "r", "y">>
P_KeyInsightsFromContent ==
    <<"K", "e", "y", " ", "i", "n", "s", "i", "g", "h", "t", "s", " ",
          "f", "r", "o", "m", " ", "c", "o", "n", "t", "e", "n", "t">>
P_MainPointsFromContent ==
    <<"M", "a", "i", "n", " ", "d", "i", "s", "c", "u", "s", "s", "i",
          "o", "n", " ", "p", "o", "i", "n", "t", "s", " ", "f", "r",
          "o", "m", " ", "c", "o", "n", "t", "e", "n", "t">>
P_KeyStatementFromDiscussion ==
    <<"K", "e", "y", " ", "s", "t", "a", "t", "e", "m", "e", "n", "t",
          " ", "f", "r", "o", "m", " ", "t", "h", "e", " ", "d", "i",
          "s", "c", "u", "s", "s", "i", "o", "n">>
L_KeyPointsHeader ==
    <<"K", "e", "y", " ", "P", "o", "i", "n", "t", "s", ":">>
L_QuotesHeader ==
    <<"Q", "u", "o", "t", "e", "s", ":">>
L_Numbered1 ==
    <<"1", ".", " ", "R", "u", "s", "t", " ", "i", "s", " ", "f", "a",
          "s", "t", " ", "a", "n", "d", " ", "s", "a", "f", "e", " ",
          "t", "o", "d", "a", "y">>
L_Numbered2 ==
    <<"2", ".", " ", "G", "o", " ", "c", "o", "m", "p", "i", "l", "e",
          "s", " ", "q", "u", "i", "c", "k", "l", "y", " ", "f", "o",
          "r", " ", "t", "e", "a", "m", "s">>
L_Numbered3 ==
    <<"3", ".", " ", "5", " ", "t", "o", "o", "l", "s", " ", "w", "e",
          "r", "e", " ", "c", "o", "m", "p", "a", "r", "e", "d", " ",
          "h", "e", "r", "e">>
L_Dash ==
    <<"-", " ">>
L_QuoteLabel1 ==
    <<"Q", "u", "o", "t", "e", " ", "1", ":", " ">>
L_QuoteLabel2 ==
    <<"Q", "u", "o", "t", "e", " ", "2", ":", " ">>
L_Plain ==
    <<"T", "h", "e", " ", "t", "h", "r", "e", "a", "d", " ", "c", "o",
          "m", "p", "a", "r", "e", "s", " ", "t", "w", "o", " ", "b",
          "u", "i", "l", "d", " ", "s", "y", "s", "t", "e", "m", "s",
          " ", "i", "n", " ", "d", "e", "t", "a", "i", "l">>
L_Sentiment ==
    <<"S", "e", "n", "t", "i", "m", "e", "n", "t", ":", " ", "m", "o",
          "s", "t", "l", "y", " ", "p", "o", "s", "i", "t", "i", "v", "e">>
L_ReadingTime ==
    <<"R", "e", "a", "d", "i", "n", "g", " ", "t", "i", "m", "e", ":",
          " ", "4", " ", "m", "i", "n", "u", "t", "e", "s">>
L_Short ==
    <<"o", "k">>
L_Blank ==
    <<" ", " ", " ">>
L_Indented ==
    <<" ", " ", "*", " ", "i", "n", "d", "e", "n", "t", "e", "d", " ",
          "b", "u", "l", "l", "e", "t", " ", "b", "o", "d", "y", " ",
          "t", "e", "x", "t">>
L_Link ==
    <<"S", "e", "e", " ", "h", "t", "t", "p", ":", "/", "/", "x", ".",
          "i", "o", " ", "f", "o", "r", " ", "t", "h", "e", " ", "f",
          "u", "l", "l", " ", "w", "r", "i", "t", "e", " ", "u", "p",
          " ", "o", "f", " ", "t", "h", "i", "s", " ", "t", "h", "r",
          "e", "a", "d">>
L_Quoted ==
    <<"\"", "S", "h", "i", "p", " ", "i", "t", "\"", " ", "s", "a", "i",
          "d", " ", "t", "h", "e", " ", "l", "e", "a", "d", ",", " ",
          "a", "n", "d", " ", "s", "o", " ", "w", "e", " ", "d", "i", "d">>
B_Quote1 ==
    <<"T", "e", "s", "t", "s", " ", "a", "r", "e", " ", "t", "h", "e",
          " ", "r", "e", "a", "l", " ", "s", "p", "e", "c">>
B_Quote2 ==
    <<"M", "e", "a", "s", "u", "r", "e", " ", "b", "e", "f", "o", "r",
          "e", " ", "y", "o", "u", " ", "c", "u", "t">>
W_data ==
    <<"d", "a", "t", "a", " ">>
B_Sentence ==
    <<"T", "h", "i", "s", " ", "i", "s", " ", "o", "n", "e", " ", "f",
          "u", "l", "l", " ", "s", "e", "n", "t", "e", "n", "c", "e",
          ".", " ", "H", "e", "r", "e", " ", "i", "s", " ", "a", "n",
          "o", "t", "h", "e", "r", " ", "s", "e", "n", "t", "e", "n",
          "c", "e", "!", " ", "A", "n", "d", " ", "a", " ", "t", "h",
          "i", "r", "d", " ", "o", "n", "e", "?">>
B_Point1 ==
    <<"R", "u", "s", "t", " ", "i", "s", " ", "f", "a", "s", "t", " ",
          "a", "n", "d", " ", "s", "a", "f", "e", " ", "t", "o", "d",
          "a", "y">>
B_Point2 ==
    <<"5", " ", "t", "o", "o", "l", "s", " ", "w", "e", "r", "e", " ",
          "c", "o", "m", "p", "a", "r", "e", "d", " ", "h", "e", "r", "e">>
L_Num1 ==
    <<"1", ".", " ">>
L_Num2 ==
    <<"2", ".", " ">>
L_Num3 ==
    <<"3", ".", " ">>
S_429 ==
    <<"4", "2", "9">>
S_quota ==
    <<"q", "u", "o", "t", "a">>
S_503 ==
    <<"5", "0", "3">>
S_overloaded ==
    <<"o", "v", "e", "r", "l", "o", "a", "d", "e", "d">>
M_Quota429 ==
    <<"[", "4", "2", "9", " ", "T", "o", "o", " ", "M", "a", "n", "y",
          " ", "R", "e", "q", "u", "e", "s", "t", "s", "]", " ", "R",
          "e", "s", "o", "u", "r", "c", "e", " ", "h", "a", "s", " ",
          "b", "e", "e", "n", " ", "e", "x", "h", "a", "u", "s", "t",
          "e", "d">>
M_QuotaWord ==
    <<"Y", "o", "u", " ", "e", "x", "c", "e", "e", "d", "e", "d", " ",
          "y", "o", "u", "r", " ", "c", "u", "r", "r", "e", "n", "t",
          " ", "q", "u", "o", "t", "a">>
M_Unavailable503 ==
    <<"[", "5", "0", "3", " ", "S", "e", "r", "v", "i", "c", "e", " ",
          "U", "n", "a", "v", "a", "i", "l", "a", "b", "l", "e", "]",
          " ", "t", "r", "y", " ", "a", "g", "a", "i", "n", " ", "l",
          "a", "t", "e", "r">>
M_Overloaded ==
    <<"T", "h", "e", " ", "m", "o", "d", "e", "l", " ", "i", "s", " ",
          "o", "v", "e", "r", "l", "o", "a", "d", "e", "d">>
M_FetchFailed ==
    <<"f", "e", "t", "c", "h", " ", "f", "a", "i", "l", "e", "d">>
M_Empty ==
    <<>>
M_TypeErrorIncludes ==
    <<"C", "a", "n", "n", "o", "t", " ", "r", "e", "a", "d", " ", "p",
          "r", "o", "p", "e", "r", "t", "i", "e", "s", " ", "o", "f",
          " ", "u", "n", "d", "e", "f", "i", "n", "e", "d", " ", "(",
          "r", "e", "a", "d", "i", "n", "g", " ", "'", "i", "n", "c",
          "l", "u", "d", "e", "s", "'", ")">>
M_HFNotInitialized ==
    <<"H", "u", "g", "g", "i", "n", "g", " ", "F", "a", "c", "e", " ",
          "s", "e", "r", "v", "i", "c", "e", " ", "n", "o", "t", " ",
          "i", "n", "i", "t", "i", "a", "l", "i", "z", "e", "d">>
M_Timeout30000 ==
    <<"O", "p", "e", "r", "a", "t", "i", "o", "n", " ", "t", "i", "m",
          "e", "d", " ", "o", "u", "t", " ", "a", "f", "t", "e", "r",
          " ", "3", "0", "0", "0", "0", "m", "s">>
M_Timeout20000 ==
    <<"O", "p", "e", "r", "a", "t", "i", "o", "n", " ", "t", "i", "m",
          "e", "d", " ", "o", "u", "t", " ", "a", "f", "t", "e", "r",
          " ", "2", "0", "0", "0", "0", "m", "s">>
M_Timeout15000 ==
    <<"O", "p", "e", "r", "a", "t", "i", "o", "n", " ", "t", "i", "m",
          "e", "d", " ", "o", "u", "t", " ", "a", "f", "t", "e", "r",
          " ", "1", "5", "0", "0", "0", "m", "s">>
M_TypeErrorMessageOfUndefined ==
    <<"C", "a", "n", "n", "o", "t", " ", "r", "e", "a", "d", " ", "p",
          "r", "o", "p", "e", "r", "t", "i", "e", "s", " ", "o", "f",
          " ", "u", "n", "d", "e", "f", "i", "n", "e", "d", " ", "(",
          "r", "e", "a", "d", "i", "n", "g", " ", "'", "m", "e", "s",
          "s", "a", "g", "e", "'", ")">>
M_TypeErrorMessageOfNull ==
    <<"C", "a", "n", "n", "o", "t", " ", "r", "e", "a", "d", " ", "p",
          "r", "o", "p", "e", "r", "t", "i", "e", "s", " ", "o", "f",
          " ", "n", "u", "l", "l", " ", "(", "r", "e", "a", "d", "i",
          "n", "g", " ", "'", "m", "e", "s", "s", "a", "g", "e", "'", ")">>
S_timeout ==
    <<"t", "i", "m", "e", "o", "u", "t">>
M_NetworkTimeout ==
    <<"n", "e", "t", "w", "o", "r", "k", " ", "t", "i", "m", "e", "o",
          "u", "t", " ", "a", "t", ":", " ", "h", "t", "t", "p", "s",
          ":", "/", "/", "g", "e", "n", "e", "r", "a", "t", "i", "v",
          "e", "l", "a", "n", "g", "u", "a", "g", "e", ".", "g", "o",
          "o", "g", "l", "e", "a", "p", "i", "s", ".", "c", "o", "m">>
R_ThanksForSharingThis ==
    <<"T", "h", "a", "n", "k", "s", " ", "f", "o", "r", " ", "s", "h",
          "a", "r", "i", "n", "g", " ", "t", "h", "i", "s", "!">>
K_thanks ==
    <<"t", "h", "a", "n", "k", "s">>
K_great ==
    <<"g", "r", "e", "a", "t">>
K_interesting ==
    <<"i", "n", "t", "e", "r", "e", "s", "t", "i", "n", "g">>
K_helpful ==
    <<"h", "e", "l", "p", "f", "u", "l">>
K_insight ==
    <<"i", "n", "s", "i", "g", "h", "t">>
K_learn ==
    <<"l", "e", "a", "r", "n">>
R_Positive1 ==
    <<"G", "r", "e", "a", "t", " ", "i", "n", "s", "i", "g", "h", "t",
          "s", "!", " ", "T", "h", "a", "n", "k", "s", " ", "f", "o",
          "r", " ", "s", "h", "a", "r", "i", "n", "g", " ", "t", "h",
          "e", "s", "e", " ", "t", "h", "o", "u", "g", "h", "t", "s", ".">>
R_Positive2 ==
    <<"T", "h", "i", "s", " ", "i", "s", " ", "r", "e", "a", "l", "l",
          "y", " ", "h", "e", "l", "p", "f", "u", "l", " ", "i", "n",
          "f", "o", "r", "m", "a", "t", "i", "o", "n", ".", " ", "A",
          "p", "p", "r", "e", "c", "i", "a", "t", "e", " ", "t", "h",
          "e", " ", "b", "r", "e", "a", "k", "d", "o", "w", "n", ".">>
R_Positive3 ==
    <<"I", "n", "t", "e", "r", "e", "s", "t", "i", "n", "g", " ", "p",
          "e", "r", "s", "p", "e", "c", "t", "i", "v", "e", ".", " ",
          "L", "e", "a", "r", "n", "e", "d", " ", "s", "o", "m", "e",
          "t", "h", "i", "n", "g", " ", "n", "e", "w", " ", "t", "o",
          "d", "a", "y", "!">>
R_Positive4 ==
    <<"T", "h", "a", "n", "k", "s", " ", "f", "o", "r", " ", "t", "h",
          "e", " ", "d", "e", "t", "a", "i", "l", "e", "d", " ", "e",
          "x", "p", "l", "a", "n", "a", "t", "i", "o", "n", ".", " ",
          "V", "e", "r", "y", " ", "i", "n", "f", "o", "r", "m", "a",
          "t", "i", "v", "e", ".">>
R_Neutral1 ==
    <<"T", "h", "a", "n", "k", "s", " ", "f", "o", "r", " ", "s", "h",
          "a", "r", "i", "n", "g", " ", "t", "h", "e", "s", "e", " ",
          "i", "n", "s", "i", "g", "h", "t", "s", "!">>
R_Neutral2 ==
    <<"T", "h", "i", "s", " ", "a", "d", "d", "s", " ", "v", "a", "l",
          "u", "e", " ", "t", "o", " ", "t", "h", "e", " ", "c", "o",
          "n", "v", "e", "r", "s", "a", "t", "i", "o", "n", ".">>
R_Neutral3 ==
    <<"W", "e", "l", "l", " ", "a", "r", "t", "i", "c", "u", "l", "a",
          "t", "e", "d", " ", "p", "o", "i", "n", "t", "s", " ", "h",
          "e", "r", "e", ".">>
R_Neutral4 ==
    <<"G", "o", "o", "d", " ", "t", "o", " ", "k", "n", "o", "w", " ",
          "y", "o", "u", "r", " ", "p", "e", "r", "s", "p", "e", "c",
          "t", "i", "v", "e", " ", "o", "n", " ", "t", "h", "i", "s", ".">>
R_Default1 ==
    <<"G", "r", "e", "a", "t", " ", "i", "n", "s", "i", "g", "h", "t",
          "s", " ", "s", "h", "a", "r", "e", "d", " ", "h", "e", "r",
          "e", "!">>
R_Default2 ==
    <<"T", "h", "a", "n", "k", "s", " ", "f", "o", "r", " ", "b", "r",
          "e", "a", "k", "i", "n", "g", " ", "t", "h", "i", "s", " ",
          "d", "o", "w", "n", ".">>
R_Default3 ==
    <<"T", "h", "i", "s", " ", "i", "s", " ", "r", "e", "a", "l", "l",
          "y", " ", "h", "e", "l", "p", "f", "u", "l", " ", "i", "n",
          "f", "o", "r", "m", "a", "t", "i", "o", "n", ".">>
R_Default4 ==
    <<"I", "n", "t", "e", "r", "e", "s", "t", "i", "n", "g", " ", "p",
          "e", "r", "s", "p", "e", "c", "t", "i", "v", "e", " ", "o",
          "n", " ", "t", "h", "i", "s", " ", "t", "o", "p", "i", "c", ".">>
R_Default5 ==
    <<"L", "e", "a", "r", "n", "e", "d", " ", "s", "o", "m", "e", "t",
          "h", "i", "n", "g", " ", "n", "e", "w", " ", "t", "o", "d",
          "a", "y", "!">>
R_ThanksForSharing ==
    <<"T", "h", "a", "n", "k", "s", " ", "f", "o", "r", " ", "s", "h",
          "a", "r", "i", "n", "g", "!">>
R_ThanksForSharingThisInsight ==
    <<"T", "h", "a", "n", "k", "s", " ", "f", "o", "r", " ", "s", "h",
          "a", "r", "i", "n", "g", " ", "t", "h", "i", "s", " ", "i",
          "n", "s", "i", "g", "h", "t", "!">>
P_ContentSummaryWillAppear ==
    <<"C", "o", "n", "t", "e", "n", "t", " ", "s", "u", "m", "m", "a",
          "r", "y", " ", "w", "i", "l", "l", " ", "a", "p", "p", "e",
          "a", "r", " ", "h", "e", "r", "e">>
P_NotableQuotesWillAppear ==
    <<"N", "o", "t", "a", "b", "l", "e", " ", "q", "u", "o", "t", "e",
          "s", " ", "w", "i", "l", "l", " ", "a", "p", "p", "e", "a",
          "r", " ", "h", "e", "r", "e">>
P_MainPointsFromThread ==
    <<"M", "a", "i", "n", " ", "d", "i", "s", "c", "u", "s", "s", "i",
          "o", "n", " ", "p", "o", "i", "n", "t", "s", " ", "f", "r",
          "o", "m", " ", "t", "h", "e", " ", "t", "h", "r", "e", "a", "d">>
P_NotableStatement ==
    <<"N", "o", "t", "a", "b", "l", "e", " ", "s", "t", "a", "t", "e",
          "m", "e", "n", "t", " ", "f", "r", "o", "m", " ", "t", "h",
          "e", " ", "d", "i", "s", "c", "u", "s", "s", "i", "o", "n">>
M_AllHFModelsFailed ==
    <<"A", "l", "l", " ", "H", "u", "g", "g", "i", "n", "g", " ", "F",
          "a", "c", "e", " ", "m", "o", "d", "e", "l", "s", " ", "f",
          "a", "i", "l", "e", "d">>
P_KeyInsightsFromThread ==
    <<"K", "e", "y", " ", "i", "n", "s", "i", "g", "h", "t", "s", " ",
          "f", "r", "o", "m", " ", "t", "h", "e", " ", "t", "h", "r",
          "e", "a", "d">>
P_NotableStatements ==
    <<"N", "o", "t", "a", "b", "l", "e", " ", "s", "t", "a", "t", "e",
          "m", "e", "n", "t", "s", " ", "f", "r", "o", "m", " ", "t",
          "h", "e", " ", "d", "i", "s", "c", "u", "s", "s", "i", "o", "n">>
M_RateLimitExceeded ==
    <<"A", "P", "I", " ", "r", "a", "t", "e", " ", "l", "i", "m", "i",
          "t", " ", "e", "x", "c", "e", "e", "d", "e", "d", ".", " ",
          "P", "l", "e", "a", "s", "e", " ", "t", "r", "y", " ", "a",
          "g", "a", "i", "n", " ", "l", "a", "t", "e", "r", ".">>
M_GeminiApiErrorPrefix ==
    <<"G", "e", "m", "i", "n", "i", " ", "A", "P", "I", " ", "e", "r",
          "r", "o", "r", ":", " ">>
Msg_ThreadContentRequired ==
    <<"T", "h", "r", "e", "a", "d", " ", "c", "o", "n", "t", "e", "n",
          "t", " ", "i", "s", " ", "r", "e", "q", "u", "i", "r", "e", "d">>
Msg_ThreadAndSummaryRequired ==
    <<"T", "h", "r", "e", "a", "d", " ", "c", "o", "n", "t", "e", "n",
          "t", " ", "a", "n", "d", " ", "s", "u", "m", "m", "a", "r",
          "y", " ", "a", "r", "e", " ", "r", "e", "q", "u", "i", "r",
          "e", "d">>
Msg_ThreadTextRequired ==
    <<"T", "h", "r", "e", "a", "d", " ", "c", "o", "n", "t", "e", "n",
          "t", " ", "t", "e", "x", "t", " ", "i", "s", " ", "r", "e",
          "q", "u", "i", "r", "e", "d">>
Msg_KeyPointsArray ==
    <<"S", "u", "m", "m", "a", "r", "y", " ", "m", "u", "s", "t", " ",
          "i", "n", "c", "l", "u", "d", "e", " ", "k", "e", "y", "P",
          "o", "i", "n", "t", "s", " ", "a", "r", "r", "a", "y">>
Msg_TooManyRequests ==
    <<"T", "o", "o", " ", "m", "a", "n", "y", " ", "r", "e", "q", "u",
          "e", "s", "t", "s", ".", " ", "P", "l", "e", "a", "s", "e",
          " ", "t", "r", "y", " ", "a", "g", "a", "i", "n", " ", "i",
          "n", " ", "a", " ", "m", "i", "n", "u", "t", "e", ".">>
Msg_FailedToSummarize ==
    <<"F", "a", "i", "l", "e", "d", " ", "t", "o", " ", "s", "u", "m",
          "m", "a", "r", "i", "z", "e", " ", "t", "h", "r", "e", "a", "d">>
Msg_FailedToReply ==
    <<"F", "a", "i", "l", "e", "d", " ", "t", "o", " ", "g", "e", "n",
          "e", "r", "a", "t", "e", " ", "r", "e", "p", "l", "y">>
Msg_CacheCleared ==
    <<"C", "a", "c", "h", "e", " ", "c", "l", "e", "a", "r", "e", "d">>
U_Summarize ==
    <<"/", "a", "p", "i", "/", "s", "u", "m", "m", "a", "r", "i", "z", "e">>
U_Reply ==
    <<"/", "a", "p", "i", "/", "r", "e", "p", "l", "y">>
K_ThreadContent ==
    <<"t", "h", "r", "e", "a", "d", "C", "o", "n", "t", "e", "n", "t">>
K_Text ==
    <<"t", "e", "x", "t">>
K_Summary ==
    <<"s", "u", "m", "m", "a", "r", "y">>
K_KeyPoints ==
    <<"k", "e", "y", "P", "o", "i", "n", "t", "s">>
K_Author ==
    <<"a", "u", "t", "h", "o", "r">>
K_Sentiment ==
    <<"s", "e", "n", "t", "i", "m", "e", "n", "t">>
U_ClearCache ==
    <<"/", "a", "p", "i", "/", "c", "l", "e", "a", "r", "-", "c", "a",
          "c", "h", "e">>
PK_amazing ==
    <<"a", "m", "a", "z", "i", "n", "g">>
PK_awesome ==
    <<"a", "w", "e", "s", "o", "m", "e">>
PK_love ==
    <<"l", "o", "v", "e">>
PK_excellent ==
    <<"e", "x", "c", "e", "l", "l", "e", "n", "t">>
PK_fantastic ==
    <<"f", "a", "n", "t", "a", "s", "t", "i", "c">>
QK_mark ==
    <<"?">>
QK_how ==
    <<"h", "o", "w">>
QK_what ==
    <<"w", "h", "a", "t">>
QK_why ==
    <<"w", "h", "y">>
QK_when ==
    <<"w", "h", "e", "n">>
QK_where ==
    <<"w", "h", "e", "r", "e">>
QK_canYou ==
    <<"c", "a", "n", " ", "y", "o", "u">>
RC_Positive1 ==
    <<"G", "r", "e", "a", "t", " ", "i", "n", "s", "i", "g", "h", "t",
          "s", " ", "s", "h", "a", "r", "e", "d", " ", "h", "e", "r",
          "e", "!", " ", "T", "h", "a", "n", "k", "s", " ", "f", "o",
          "r", " ", "b", "r", "e", "a", "k", "i", "n", "g", " ", "t",
          "h", "i", "s", " ", "d", "o", "w", "n", ".">>
RC_Positive2 ==
    <<"T", "h", "i", "s", " ", "i", "s", " ", "r", "e", "a", "l", "l",
          "y", " ", "h", "e", "l", "p", "f", "u", "l", " ", "i", "n",
          "f", "o", "r", "m", "a", "t", "i", "o", "n", ".", " ", "A",
          "p", "p", "r", "e", "c", "i", "a", "t", "e", " ", "t", "h",
          "e", " ", "d", "e", "t", "a", "i", "l", "e", "d", " ", "e",
          "x", "p", "l", "a", "n", "a", "t", "i", "o", "n", ".">>
RC_Positive3 ==
    <<"I", "n", "t", "e", "r", "e", "s", "t", "i", "n", "g", " ", "p",
          "e", "r", "s", "p", "e", "c", "t", "i", "v", "e", " ", "o",
          "n", " ", "t", "h", "i", "s", " ", "t", "o", "p", "i", "c",
          ".", " ", "L", "e", "a", "r", "n", "e", "d", " ", "s", "o",
          "m", "e", "t", "h", "i", "n", "g", " ", "n", "e", "w", " ",
          "t", "o", "d", "a", "y", "!">>
RC_Positive4 ==
    <<"T", "h", "a", "n", "k", "s", " ", "f", "o", "r", " ", "s", "h",
          "a", "r", "i", "n", "g", " ", "t", "h", "e", "s", "e", " ",
          "t", "h", "o", "u", "g", "h", "t", "s", ".", " ", "V", "e",
          "r", "y", " ", "i", "n", "f", "o", "r", "m", "a", "t", "i",
          "v", "e", " ", "t", "h", "r", "e", "a", "d", ".">>
RC_Positive5 ==
    <<"T", "h", "i", "s", " ", "a", "d", "d", "s", " ", "a", " ", "l",
          "o", "t", " ", "o", "f", " ", "v", "a", "l", "u", "e", " ",
          "t", "o", " ", "t", "h", "e", " ", "c", "o", "n", "v", "e",
          "r", "s", "a", "t", "i", "o", "n", ".", " ", "W", "e", "l",
          "l", " ", "a", "r", "t", "i", "c", "u", "l", "a", "t", "e",
          "d", "!">>
RC_Question1 ==
    <<"G", "o", "o", "d", " ", "q", "u", "e", "s", "t", "i", "o", "n",
          "!", " ", "H", "e", "r", "e", "'", "s", " ", "m", "y", " ",
          "t", "a", "k", "e", " ", "o", "n", " ", "t", "h", "i", "s",
          ".", ".", ".">>
RC_Question2 ==
    <<"T", "h", "a", "t", "'", "s", " ", "a", "n", " ", "i", "n", "t",
          "e", "r", "e", "s", "t", "i", "n", "g", " ", "p", "o", "i",
          "n", "t", ".", " ", "F", "r", "o", "m", " ", "m", "y", " ",
          "e", "x", "p", "e", "r", "i", "e", "n", "c", "e", ".", ".", ".">>
RC_Question3 ==
    <<"I", "'", "v", "e", " ", "b", "e", "e", "n", " ", "t", "h", "i",
          "n", "k", "i", "n", "g", " ", "a", "b", "o", "u", "t", " ",
          "t", "h", "i", "s", " ", "t", "o", "o", ".", " ", "H", "e",
          "r", "e", "'", "s", " ", "w", "h", "a", "t", " ", "I", " ",
          "f", "o", "u", "n", "d", ".", ".", ".">>
RC_Question4 ==
    <<"T", "h", "a", "n", "k", "s", " ", "f", "o", "r", " ", "r", "a",
          "i", "s", "i", "n", "g", " ", "t", "h", "i", "s", " ", "q",
          "u", "e", "s", "t", "i", "o", "n", ".", " ", "M", "y", " ",
          "p", "e", "r", "s", "p", "e", "c", "t", "i", "v", "e", " ",
          "i", "s", ".", ".", ".">>
RC_Neutral1 ==
    <<"T", "h", "a", "n", "k", "s", " ", "f", "o", "r", " ", "s", "h",
          "a", "r", "i", "n", "g", " ", "t", "h", "e", "s", "e", " ",
          "i", "n", "s", "i", "g", "h", "t", "s", "!">>
RC_Neutral2 ==
    <<"T", "h", "i", "s", " ", "i", "s", " ", "r", "e", "a", "l", "l",
          "y", " ", "h", "e", "l", "p", "f", "u", "l", " ", "i", "n",
          "f", "o", "r", "m", "a", "t", "i", "o", "n", ".">>
RC_Neutral3 ==
    <<"I", "n", "t", "e", "r", "e", "s", "t", "i", "n", "g", " ", "p",
          "e", "r", "s", "p", "e", "c", "t", "i", "v", "e", ",", " ",
          "l", "e", "a", "r", "n", "e", "d", " ", "s", "o", "m", "e",
          "t", "h", "i", "n", "g", " ", "n", "e", "w", "!">>
RC_Neutral4 ==
    <<"A", "p", "p", "r", "e", "c", "i", "a", "t", "e", " ", "t", "h",
          "e", " ", "d", "e", "t", "a", "i", "l", "e", "d", " ", "e",
          "x", "p", "l", "a", "n", "a", "t", "i", "o", "n", ".">>
RC_Neutral5 ==
    <<"T", "h", "i", "s", " ", "a", "d", "d", "s", " ", "v", "a", "l",
          "u", "e", " ", "t", "o", " ", "t", "h", "e", " ", "c", "o",
          "n", "v", "e", "r", "s", "a", "t", "i", "o", "n", ".">>
RC_Default1 ==
    <<"G", "r", "e", "a", "t", " ", "i", "n", "s", "i", "g", "h", "t",
          "s", " ", "s", "h", "a", "r", "e", "d", " ", "h", "e", "r",
          "e", "!">>
RC_Default2 ==
    <<"T", "h", "i", "s", " ", "i", "s", " ", "r", "e", "a", "l", "l",
          "y", " ", "h", "e", "l", "p", "f", "u", "l", " ", "i", "n",
          "f", "o", "r", "m", "a", "t", "i", "o", "n", ".">>
RC_Default3 ==
    <<"I", "n", "t", "e", "r", "e", "s", "t", "i", "n", "g", " ", "p",
          "e", "r", "s", "p", "e", "c", "t", "i", "v", "e", " ", "o",
          "n", " ", "t", "h", "i", "s", " ", "t", "o", "p", "i", "c", ".">>
RC_Default4 ==
    <<"T", "h", "a", "n", "k", "s", " ", "f", "o", "r", " ", "s", "h",
          "a", "r", "i", "n", "g", " ", "t", "h", "e", "s", "e", " ",
          "t", "h", "o", "u", "g", "h", "t", "s", ".">>
RC_Default5 ==
    <<"T", "h", "i", "s", " ", "a", "d", "d", "s", " ", "v", "a", "l",
          "u", "e", " ", "t", "o", " ", "t", "h", "e", " ", "c", "o",
          "n", "v", "e", "r", "s", "a", "t", "i", "o", "n", ".">>
T_Question ==
    <<"H", "o", "w", " ", "d", "o", "e", "s", " ", "t", "h", "i", "s",
          " ", "c", "o", "m", "p", "a", "r", "e", " ", "t", "o", " ",
          "t", "h", "e", " ", "o", "l", "d", " ", "a", "p", "p", "r",
          "o", "a", "c", "h", "?">>
T_Neutral ==
    <<"O", "u", "r", " ", "t", "e", "a", "m", " ", "m", "o", "v", "e",
          "d", " ", "t", "h", "e", " ", "w", "h", "o", "l", "e", " ",
          "b", "u", "i", "l", "d", " ", "t", "o", " ", "a", " ", "n",
          "e", "w", " ", "c", "a", "c", "h", "e", " ", "l", "a", "y",
          "e", "r">>
T_Interesting ==
    <<"A", " ", "v", "e", "r", "y", " ", "i", "n", "t", "e", "r", "e",
          "s", "t", "i", "n", "g", " ", "r", "e", "s", "u", "l", "t",
          " ", "f", "r", "o", "m", " ", "t", "h", "e", " ", "b", "e",
          "n", "c", "h", "m", "a", "r", "k">>
T_Love ==
    <<"I", " ", "l", "o", "v", "e", " ", "t", "h", "e", " ", "a", "m",
          "a", "z", "i", "n", "g", " ", "d", "e", "t", "a", "i", "l",
          " ", "o", "f", " ", "i", "t", " ", "a", "l", "l", " ", "h",
          "e", "r", "e">>
T_Ok ==
    <<"o", "k">>
T_Spaces ==
    <<" ", " ", " ">>
T_IndentedQuestion ==
    <<" ", " ", " ", "C", "a", "n", " ", "y", "o", "u", " ", "s", "h",
          "a", "r", "e", " ", "t", "h", "e", " ", "n", "u", "m", "b",
          "e", "r", "s", " ", "b", "e", "h", "i", "n", "d", " ", "i",
          "t", "?">>
T_Thanks ==
    <<"T", "h", "a", "n", "k", "s", " ", "f", "o", "r", " ", "t", "h",
          "e", " ", "g", "r", "e", "a", "t", " ", "w", "r", "i", "t",
          "e", " ", "u", "p", " ", "o", "n", " ", "b", "u", "i", "l",
          "d", " ", "s", "y", "s", "t", "e", "m", "s">>
T_TwoLines ==
    <<"O", "u", "r", " ", "t", "e", "a", "m", " ", "m", "o", "v", "e",
          "d", " ", "t", "h", "e", " ", "w", "h", "o", "l", "e", " ",
          "b", "u", "i", "l", "d", " ", "t", "o", " ", "a", " ", "n",
          "e", "w", " ", "c", "a", "c", "h", "e", " ", "l", "a", "y",
          "e", "r">>
L_SentimentNeg ==
    <<"S", "e", "n", "t", "i", "m", "e", "n", "t", ":", " ", "n", "e",
          "g", "a", "t", "i", "v", "e">>
L_SentimentMixed ==
    <<"O", "v", "e", "r", "a", "l", "l", " ", "s", "e", "n", "t", "i",
          "m", "e", "n", "t", ":", " ", "m", "i", "x", "e", "d">>
L_SentimentBoth ==
    <<"S", "e", "n", "t", "i", "m", "e", "n", "t", ":", " ", "n", "e",
          "g", "a", "t", "i", "v", "e", " ", "a", "t", " ", "f", "i",
          "r", "s", "t", ",", " ", "p", "o", "s", "i", "t", "i", "v",
          "e", " ", "l", "a", "t", "e", "r">>
L_ReadingZero ==
    <<"R", "e", "a", "d", "i", "n", "g", " ", "t", "i", "m", "e", ":",
          " ", "0", " ", "m", "i", "n", "u", "t", "e", "s">>
L_ReadingNone ==
    <<"R", "e", "a", "d", "i", "n", "g", " ", "t", "i", "m", "e", ":",
          " ", "s", "h", "o", "r", "t">>
L_Reading12 ==
    <<"E", "s", "t", "i", "m", "a", "t", "e", "d", " ", "r", "e", "a",
          "d", "i", "n", "g", " ", "t", "i", "m", "e", " ", "i", "s",
          " ", "1", "2", " ", "m", "i", "n", " ", "f", "o", "r", " ",
          "3", " ", "p", "a", "g", "e", "s">>
L_NestedDash ==
    <<"-", " ", "-", " ", "n", "e", "s", "t", "e", "d", " ", "b", "u",
          "l", "l", "e", "t", " ", "b", "o", "d", "y">>
L_ReadingBig ==
    <<"R", "e", "a", "d", "i", "n", "g", " ", "t", "i", "m", "e", ":",
          " ", "9", "0", "0", "7", "1", "9", "9", "2", "5", "4", "7",
          "4", "0", "9", "9", "3", " ", "m", "i", "n", "u", "t", "e", "s">>

(***************************************************************************)
(* Response parser: GeminiService.parseSummaryResponse                     *)
(***************************************************************************)
SummaryResult(kp, q, s, wc, ttr) ==
    [keyPoints |-> kp, quotes |-> q, sentiment |-> s, wordCount |-> wc,
     timeToRead |-> ttr]

\* aiResponse.split('\n').filter(line => line.trim())
responseLines(aiResponse) ==
    SelectSeq(split(aiResponse, "\n"), LAMBDA line : trim(line) # <<>>)

ScanInit ==
    [currentSection |-> "", keyPoints |-> <<>>, quotes |-> <<>>,
     sentiment |-> "neutral", timeToRead |-> NumberOf(1)]

\* the body of lines.forEach(line => ...)
scanLine(st, line) ==
    LET lowerLine == toLowerCase(trim(line))
        cleanLine == trim(stripLeadingMarker(line))
    IN  IF includes(lowerLine, S_keyPoints) \/ includes(lowerLine, S_mainPoints)
        THEN [st EXCEPT !.currentSection = "points"]
        ELSE IF includes(lowerLine, S_quotes) \/ includes(lowerLine, S_notableQuotes)
        THEN [st EXCEPT !.currentSection = "quotes"]
        ELSE IF includes(lowerLine, S_sentiment)
        THEN [st EXCEPT !.sentiment =
                 IF includes(lowerLine, S_positive) THEN "positive"
                 ELSE IF includes(lowerLine, S_negative) THEN "negative"
                 ELSE "neutral"]
        ELSE IF includes(lowerLine, S_readingTime)
        THEN IF firstDigits(line) # <<>>
             THEN [st EXCEPT !.timeToRead = parseInt(firstDigits(line))]
             ELSE st
        ELSE IF startsWith(trim(line), <<"-">>) \/ startsWith(trim(line), <<"*">>)
                \/ matchesNumbered(trim(line))
        THEN IF st.currentSection = "points" /\ cleanLine # <<>>
             THEN IF Len(st.keyPoints) < 3
                  THEN [st EXCEPT !.keyPoints = Append(@, substring0(cleanLine, 100))]
                  ELSE st
             ELSE IF st.currentSection = "quotes" /\ cleanLine # <<>>
             THEN IF Len(st.quotes) < 2
                  THEN [st EXCEPT !.quotes =
                           Append(@, substring0(removeDoubleQuotes(cleanLine), 80))]
                  ELSE st
             ELSE st
        ELSE st

RECURSIVE scanLines(_, _)
scanLines(st, lines) ==
    IF Len(lines) = 0 THEN st
    ELSE scanLines(scanLine(st, Head(lines)), Tail(lines))

\* variant of fallbackParse that does not cut the lines it takes
fallbackParse_NoCap(st, lines) ==
    LET cleanLines == SelectSeq(lines, LAMBDA line : Len(line) > 20 /\ Len(line) < 150)
        n == MathMin(3, Len(cleanLines))
    IN  IF Len(st.keyPoints) = 0 /\ Len(st.quotes) = 0
        THEN [st EXCEPT
                 !.keyPoints = [i \in 1..MathMin(2, n) |-> cleanLines[i]],
                 !.quotes = [i \in 1..(n - MathMin(2, n)) |-> cleanLines[i + 2]]]
        ELSE st

\* the "Fallback parsing" block: runs only when the scan found nothing
fallbackParse(st, lines) ==
    LET cleanLines == SelectSeq(lines, LAMBDA line : Len(line) > 20 /\ Len(line) < 150)
        n == MathMin(3, Len(cleanLines))
    IN  IF Len(st.keyPoints) = 0 /\ Len(st.quotes) = 0
        THEN [st EXCEPT
                 !.keyPoints = [i \in 1..MathMin(2, n) |-> substring0(cleanLines[i], 100)],
                 !.quotes = [i \in 1..(n - MathMin(2, n)) |->
                                substring0(cleanLines[i + 2], 80)]]
        ELSE st

\* the lists before the placeholders are filled in
parseExtracted(aiResponse) ==
    LET lines == responseLines(aiResponse)
    IN  fallbackParse(scanLines(ScanInit, lines), lines)

\* variant of parseSummaryResponse that returns the lists as extracted
parseSummaryResponse_NoPlaceholder(aiResponse) ==
    LET lines == responseLines(aiResponse)
        st == parseExtracted(aiResponse)
    IN  SummaryResult(slice0(st.keyPoints, 3), slice0(st.quotes, 2),
                      st.sentiment, 0,
                      IF st.timeToRead # NumberOf(0) THEN st.timeToRead
                      ELSE NumberOf(MathMax(1, Len(lines) \div 50)))

\* variant of parseSummaryResponse that returns timeToRead as scanned
parseSummaryResponse_RawTime(aiResponse) ==
    LET st == parseExtracted(aiResponse)
    IN  SummaryResult(
            IF Len(st.keyPoints) > 0 THEN slice0(st.keyPoints, 3)
            ELSE <<P_MainDiscussionPoints>>,
            IF Len(st.quotes) > 0 THEN slice0(st.quotes, 2)
            ELSE <<P_KeyStatementFromThread>>,
            st.sentiment,
            0,
            st.timeToRead)

\* the return value: placeholders for empty lists, timeToRead || ...
parseSummaryResponse(aiResponse) ==
    LET lines == responseLines(aiResponse)
        st == parseExtracted(aiResponse)
    IN  SummaryResult(
            IF Len(st.keyPoints) > 0 THEN slice0(st.keyPoints, 3)
            ELSE <<P_MainDiscussionPoints>>,
            IF Len(st.quotes) > 0 THEN slice0(st.quotes, 2)
            ELSE <<P_KeyStatementFromThread>>,
            st.sentiment,
            0,
            IF st.timeToRead # NumberOf(0) THEN st.timeToRead
            ELSE NumberOf(MathMax(1, Len(lines) \div 50)))

(***************************************************************************)
(* parseSummaryResponse of the class at gemini.js:482 (no HF fallback)     *)
(***************************************************************************)
\* line.replace(/^[\d*-.]+\s*/, ''): the range *-. is the characters * + , - .
stripLeadingRange(line) ==
    LET isMarker(c) == c \in ({"*", "+", ",", "-", "."} \cup Digits)
        rest == {i \in 1..Len(line) : ~isMarker(line[i])}
        k == IF rest = {} THEN Len(line) + 1 ELSE SetMin(rest)
        solid == {i \in k..Len(line) : ~IsSpace(line[i])}
        j == IF solid = {} THEN Len(line) + 1 ELSE SetMin(solid)
    IN  IF k = 1 THEN line ELSE SubSeq(line, j, Len(line))

\* the body of lines.forEach(line => ...) at gemini.js:542
scanLineUncapped(st, line) ==
    LET lowerLine == toLowerCase(line)
        cleanLine == trim(stripLeadingMarker(line))
    IN  IF includes(lowerLine, S_keyPoints) \/ includes(lowerLine, S_mainPoints)
        THEN [st EXCEPT !.currentSection = "points"]
        ELSE IF includes(lowerLine, S_notableQuotes) \/ includes(lowerLine, S_quotes)
        THEN [st EXCEPT !.currentSection = "quotes"]
        ELSE IF includes(lowerLine, S_sentiment)
        THEN [st EXCEPT !.sentiment =
                 IF includes(lowerLine, S_positive) THEN "positive"
                 ELSE IF includes(lowerLine, S_negative) THEN "negative"
                 ELSE "neutral"]
        ELSE IF includes(lowerLine, S_readingTime)
        THEN IF firstDigits(line) # <<>>
             THEN [st EXCEPT !.timeToRead = parseInt(firstDigits(line))]
             ELSE st
        ELSE IF startsWith(trim(line), <<"-">>) \/ startsWith(trim(line), <<"*">>)
                \/ matchesNumbered(trim(line))
        THEN IF st.currentSection = "points" /\ cleanLine # <<>>
             THEN [st EXCEPT !.keyPoints = Append(@, cleanLine)]
             ELSE IF st.currentSection = "quotes" /\ cleanLine # <<>>
             THEN [st EXCEPT !.quotes = Append(@, removeDoubleQuotes(cleanLine))]
             ELSE st
        ELSE st

RECURSIVE scanLinesUncapped(_, _)
scanLinesUncapped(st, lines) ==
    IF Len(lines) = 0 THEN st
    ELSE scanLinesUncapped(scanLineUncapped(st, Head(lines)), Tail(lines))

\* the "Fallback parsing" block at gemini.js:572: the first three accepted
\* lines become key points, the next two quotes
fallbackParseUncapped(st, lines) ==
    LET accepted == SelectSeq(lines, LAMBDA line :
                        /\ \/ line[1] \in (Digits \cup {"*", "-"})
                           \/ Len(line) > 30
                        /\ Len(trim(stripLeadingRange(line))) > 20)
        clean == [i \in 1..Len(accepted) |-> trim(stripLeadingRange(accepted[i]))]
        n == MathMin(5, Len(clean))
    IN  IF Len(st.keyPoints) = 0 /\ Len(st.quotes) = 0
        THEN [st EXCEPT
                 !.keyPoints = [i \in 1..MathMin(3, n) |-> substring0(clean[i], 150)],
                 !.quotes = [i \in 1..(n - MathMin(3, n)) |->
                                substring0(clean[i + 3], 100)]]
        ELSE st

parseSummaryResponseUncapped(aiResponse) ==
    LET lines == responseLines(aiResponse)
        st == fallbackParseUncapped(scanLinesUncapped(ScanInit, lines), lines)
    IN  SummaryResult(
            IF Len(st.keyPoints) > 0 THEN slice0(st.keyPoints, 5)
            ELSE <<P_KeyInsightsFromThread>>,
            IF Len(st.quotes) > 0 THEN slice0(st.quotes, 3)
            ELSE <<P_NotableStatements>>,
            st.sentiment,
            0,
            IF st.timeToRead # NumberOf(0) THEN st.timeToRead
            ELSE NumberOf(MathMax(1, Len(lines) \div 50)))

(***************************************************************************)
(* Local heuristics and the Hugging Face conversion                        *)
(***************************************************************************)
cleanAndLimit(text, maxLength) ==
    trim(substring0(text, maxLength))
        \o (IF Len(text) > maxLength THEN S_ellipsis ELSE <<>>)

\* text.split('\n').filter(line => line.trim().length > 15)
\*     .map(line => line.trim()).slice(0, 20)
heuristicLines(text) ==
    LET kept == SelectSeq(split(text, "\n"), LAMBDA line : Len(trim(line)) > 15)
    IN  slice0([i \in 1..Len(kept) |-> trim(kept[i])], 20)

meaningfulLines(lines) ==
    slice0(SelectSeq(lines, LAMBDA line :
               /\ Len(line) > 30
               /\ Len(split(line, " ")) > 5
               /\ ~includes(line, S_http)
               /\ ~includes(line, <<"@">>)
               /\ ~includes(line, <<"#">>)), 5)

potentialQuotes(lines) ==
    slice0(SelectSeq(lines, LAMBDA line :
               /\ Len(line) > 20
               /\ Len(line) < 120
               /\ (includes(line, <<"\"">>) \/ includes(line, <<LDQUO>>)
                       \/ Len(line) < 80)), 3)

\* keyPoints and quotes of generateIntelligentSummary before the final fill
heuristicExtracted(text) ==
    LET lines == heuristicLines(text)
        ml == meaningfulLines(lines)
        pq == potentialQuotes(lines)
        kp0 == [i \in 1..MathMin(3, Len(ml)) |-> cleanAndLimit(ml[i], 100)]
        q0 == [i \in 1..MathMin(2, Len(pq)) |->
                  cleanAndLimit(trim(removeDoubleQuotes(pq[i])), 80)]
        kp1 == IF Len(kp0) = 0
               THEN <<cleanAndLimit(IF lines[1] # <<>> THEN lines[1]
                                    ELSE P_ThreadContentAnalysis, 100)>>
               ELSE kp0
        q1 == IF Len(q0) = 0 /\ Len(lines) > 1
              THEN <<cleanAndLimit(IF lines[2] # <<>> THEN lines[2]
                                   ELSE P_KeyInsightsFromDiscussion, 80)>>
              ELSE q0
    IN  IF Len(lines) > 0
        THEN [keyPoints |-> kp1, quotes |-> q1]
        ELSE [keyPoints |-> <<>>, quotes |-> <<>>]

generateIntelligentSummary(text) ==
    LET ex == heuristicExtracted(text)
    IN  IF Len(trim(text)) = 0
        THEN SummaryResult(<<P_NoContentFound>>, <<P_NoQuotesAvailable>>,
                           "neutral", 0, NumberOf(0))
        ELSE SummaryResult(
                 IF Len(ex.keyPoints) > 0 THEN slice0(ex.keyPoints, 3)
                 ELSE <<P_MainDiscussionPoints>>,
                 IF Len(ex.quotes) > 0 THEN slice0(ex.quotes, 2)
                 ELSE <<P_KeyStatementFromThread>>,
                 "neutral",
                 Len(text),
                 NumberOf(MathCeilDiv(Len(text), 200)))

\* the sentences parseIntelligentHFResponse keeps, before the fill
hfExtracted(hfResponse) ==
    LET text == trim(hfResponse)
        sentences == SelectSeq(splitSentences(text), LAMBDA s : Len(trim(s)) > 15)
        n == MathMin(3, Len(sentences))
    IN  [keyPoints |-> [i \in 1..MathMin(2, n) |->
                           cleanAndLimit(trim(sentences[i]), 100)],
         quotes |-> [i \in 1..(n - MathMin(2, n)) |->
                        cleanAndLimit(trim(sentences[i + 2]), 80)]]

parseIntelligentHFResponse(hfResponse) ==
    LET text == trim(hfResponse)
        ex == hfExtracted(hfResponse)
    IN  IF Len(text) = 0
        THEN SummaryResult(<<P_AIGeneratedSummary>>, <<P_KeyInsightsFromContent>>,
                           "neutral", 0, NumberOf(1))
        ELSE SummaryResult(
                 IF Len(ex.keyPoints) = 0 THEN <<P_MainPointsFromContent>>
                 ELSE slice0(ex.keyPoints, 3),
                 IF Len(ex.quotes) = 0 THEN <<P_KeyStatementFromDiscussion>>
                 ELSE slice0(ex.quotes, 2),
                 "neutral",
                 Len(text),
                 NumberOf(MathCeilDiv(Len(text), 200)))

(***************************************************************************)
(* Reply heuristics (class at gemini.js:604) and the older summarize       *)
(* helpers (class at gemini.js:4)                                          *)
(***************************************************************************)
contextKeywords ==
    {K_thanks, K_great, K_interesting, K_helpful, K_insight, K_learn}

positiveReplies == <<R_Positive1, R_Positive2, R_Positive3, R_Positive4>>

neutralReplies == <<R_Neutral1, R_Neutral2, R_Neutral3, R_Neutral4>>

defaultReplies ==
    <<R_Default1, R_Default2, R_Default3, R_Default4, R_Default5>>

\* Math.random() in twentieths: 0 <= random < RandomScale
RandomScale == 20

\* list[Math.floor(Math.random() * list.length)]
randomElement(list, random) == list[((random * Len(list)) \div RandomScale) + 1]

generateIntelligentReply(text, random) ==
    LET kept == SelectSeq(split(text, "\n"), LAMBDA line : Len(trim(line)) > 20)
        firstLine == trim(kept[1])
        hasPositiveContext ==
            \E keyword \in contextKeywords : includes(toLowerCase(firstLine), keyword)
    IN  IF Len(trim(text)) = 0 THEN R_ThanksForSharingThis
        ELSE IF Len(kept) > 0
        THEN IF hasPositiveContext THEN randomElement(positiveReplies, random)
             ELSE randomElement(neutralReplies, random)
        ELSE randomElement(defaultReplies, random)

\* gemini.js:365-371
sampleReplies ==
    <<RC_Positive1, RC_Positive2, RC_Positive3, RC_Positive4, RC_Positive5>>

\* generateBasicReply() of the class at gemini.js:4
generateBasicReply(random) == randomElement(sampleReplies, random)

extractCleanReply(replyText) ==
    LET text == trim(replyText)
        sentences == SelectSeq(splitSentences(text), LAMBDA s : Len(trim(s)) > 10)
        lines == SelectSeq(split(text, "\n"), LAMBDA l : Len(trim(l)) > 10)
    IN  IF Len(text) = 0 THEN R_ThanksForSharing
        ELSE IF Len(sentences) > 0
        THEN cleanAndLimit(trim(sentences[1]) \o <<".">>, 120)
        ELSE IF Len(lines) > 0 THEN cleanAndLimit(trim(lines[1]), 120)
        ELSE R_ThanksForSharingThisInsight

\* the "Return fallback structure" literal of summarizeThread (gemini.js:73)
FallbackStructure ==
    SummaryResult(<<P_ContentSummaryWillAppear>>, <<P_NotableQuotesWillAppear>>,
                  "neutral", 0, NumberOf(1))

convertHFSummaryToOurFormat(hfSummary) ==
    LET sentences == SelectSeq(splitSentences(hfSummary),
                               LAMBDA s : Len(trim(s)) > 10)
        n == MathMin(3, Len(sentences))
        keyPoints == [i \in 1..MathMin(2, n) |->
                         substring0(trim(sentences[i]), 100)]
        quotes == [i \in 1..(n - MathMin(2, n)) |->
                      substring0(trim(sentences[i + 2]), 80)]
    IN  SummaryResult(
            IF Len(keyPoints) = 0 THEN <<P_MainPointsFromThread>> ELSE keyPoints,
            IF Len(quotes) = 0 THEN <<P_NotableStatement>> ELSE quotes,
            "neutral",
            Len(hfSummary),
            NumberOf(MathCeilDiv(Len(hfSummary), 200)))

generateBasicSummary(text) ==
    LET kept == SelectSeq(split(text, "\n"), LAMBDA line : Len(trim(line)) > 10)
        lines == [i \in 1..Len(kept) |-> trim(kept[i])]
        cut(line, n) == substring0(line, n)
                            \o (IF Len(line) > n THEN S_ellipsis ELSE <<>>)
        ml == SelectSeq(lines, LAMBDA line :
                  /\ Len(line) > 30
                  /\ Len(split(line, " ")) > 5
                  /\ ~includes(line, S_http))
        kp0 == [i \in 1..MathMin(3, Len(ml)) |-> cut(ml[i], 100)]
        kp1 == IF Len(kp0) = 0 /\ Len(lines) > 0
               THEN <<cut(lines[1], 100)>> ELSE kp0
        shortLines == SelectSeq(lines, LAMBDA line : Len(line) > 20 /\ Len(line) < 100)
        q0 == [i \in 1..MathMin(2, Len(shortLines)) |-> shortLines[i]]
        q1 == IF Len(q0) = 0 /\ Len(lines) > 1
              THEN <<substring0(lines[(Len(lines) \div 2) + 1], 80) \o S_ellipsis>>
              ELSE q0
    IN  IF Len(trim(text)) = 0
        THEN SummaryResult(<<P_NoContentFound>>, <<P_NoQuotesAvailable>>,
                           "neutral", 0, NumberOf(0))
        ELSE SummaryResult(
                 IF Len(kp1) > 0 THEN kp1 ELSE <<P_ThreadContentAnalysis>>,
                 IF Len(q1) > 0 THEN q1 ELSE <<P_KeyInsightsFromDiscussion>>,
                 "neutral",
                 Len(text),
                 NumberOf(MathCeilDiv(Len(text), 200)))

(***************************************************************************)
(* Errors: a thrown value with an optional message text                    *)
(***************************************************************************)
Err(msg) == [kind |-> "Error", hasMessage |-> TRUE, message |-> msg]

\* a rejection value that has no message property
NoMessageError == [kind |-> "value", hasMessage |-> FALSE, message |-> <<>>]

\* what error.message.includes(...) throws when error.message is undefined
TypeErrorIncludes ==
    [kind |-> "TypeError", hasMessage |-> TRUE, message |-> M_TypeErrorIncludes]

\* a promise rejected with undefined, and one rejected with null
UndefinedRejection == [kind |-> "undefined", hasMessage |-> FALSE, message |-> <<>>]

NullRejection == [kind |-> "null", hasMessage |-> FALSE, message |-> <<>>]

\* what a catch block that evaluates error.message.includes(...) throws for a
\* caught value e without a message text: reading .message of undefined or
\* null throws, reading .includes of the undefined message otherwise
messageTypeError(e) ==
    IF e.kind = "undefined"
    THEN [kind |-> "TypeError", hasMessage |-> TRUE,
          message |-> M_TypeErrorMessageOfUndefined]
    ELSE IF e.kind = "null"
    THEN [kind |-> "TypeError", hasMessage |-> TRUE,
          message |-> M_TypeErrorMessageOfNull]
    ELSE TypeErrorIncludes

NoError == [kind |-> "none", hasMessage |-> FALSE, message |-> <<>>]

ProviderErrors ==
    {Err(M_Quota429), Err(M_QuotaWord), Err(M_Unavailable503),
     Err(M_Overloaded), Err(M_FetchFailed), Err(M_Empty), NoMessageError,
     UndefinedRejection, NullRejection}

\* error.message.includes('503') || error.message.includes('overloaded')
isTransientMessage(e) ==
    includes(e.message, S_503) \/ includes(e.message, S_overloaded)

\* error.message.includes('429') || error.message.includes('quota')
isQuotaMessage(e) ==
    includes(e.message, S_429) \/ includes(e.message, S_quota)

(***************************************************************************)
(* Inputs of the pure functions                                            *)
(***************************************************************************)
MaxLines == 2

NL == <<"\n">>

\* 120 characters in 24 words
LongBody == repeat(W_data, 24)

\* 160 characters, outside the fallback window
VeryLongLine == repeat(W_data, 32)

LinePool ==
    {L_KeyPointsHeader, L_QuotesHeader, L_Numbered1, L_Dash \o LongBody,
     L_QuoteLabel1 \o B_Quote1, L_Plain, VeryLongLine, L_Sentiment,
     L_ReadingTime, L_Short, L_Blank, L_Indented, L_Link, L_Quoted,
     B_Sentence}

FreeTexts ==
    {join(ls, NL) : ls \in UNION {[1..k -> LinePool] : k \in 0..MaxLines}}

PointBodies == {B_Point1, B_Point2, LongBody}

QuoteBodies == {B_Quote1, B_Quote2, LongBody}

\* the format the summarize prompt asks the provider for
WellFormed(p1, p2, p3, q1, q2) ==
    join(<<L_KeyPointsHeader, L_Num1 \o p1, L_Num2 \o p2, L_Num3 \o p3,
           L_QuotesHeader, L_QuoteLabel1 \o q1, L_QuoteLabel2 \o q2>>, NL)

WellFormedTexts ==
    {WellFormed(p1, p2, p3, q1, q2) :
        p1 \in PointBodies, p2 \in PointBodies, p3 \in PointBodies,
        q1 \in QuoteBodies, q2 \in QuoteBodies}

\* lines with a sentiment or a reading-time marker
MarkerLines ==
    {L_Sentiment, L_SentimentNeg, L_SentimentMixed, L_SentimentBoth,
     L_ReadingTime, L_ReadingZero, L_ReadingNone, L_Reading12,
     L_ReadingBig}

MarkerTexts ==
    {join(ls, NL) : ls \in UNION {[1..k -> MarkerLines] : k \in 1..2}}

\* lines of 21 to 149 characters outside any section
FallbackLines ==
    <<L_Plain, L_Link, L_Quoted, L_Numbered1, L_Numbered2, L_Numbered3>>

\* responses without structure, of 3 to 6 lines
FallbackTexts == {join(SubSeq(FallbackLines, 1, k), NL) : k \in 3..6}

\* a key points section with one bullet line
BulletLines == {L_Numbered1, L_Dash \o LongBody, L_Indented, L_NestedDash}

BulletTexts == {join(<<L_KeyPointsHeader, l>>, NL) : l \in BulletLines}

\* the key points header with the Kelvin sign for its first letter
L_KelvinHeader == <<"U+212A">> \o Tail(L_KeyPointsHeader)

KelvinTexts == {join(<<L_KelvinHeader, l>>, NL) : l \in BulletLines}

Texts ==
    FreeTexts \cup WellFormedTexts \cup MarkerTexts \cup FallbackTexts
        \cup BulletTexts \cup KelvinTexts

NoResult == [keyPoints |-> <<>>, quotes |-> <<>>, sentiment |-> "none",
             wordCount |-> 0, timeToRead |-> NumberOf(0)]


(***************************************************************************)
(* State                                                                   *)
(***************************************************************************)
VARIABLES
    fnInput,       \* the text handed to a pure function
    fnPath,        \* "pending", or the function that produced fnResult
    fnResult,      \* the SummaryResult it returned
    rtVariant,     \* which retryOperation runs: exponential or linear backoff
    rtPc,          \* retryOperation: start, awaiting, waiting, returned, thrown
    rtMaxRetries,  \* its maxRetries argument
    rtDelay,       \* its delay argument, in ms
    rtI,           \* the loop variable i
    rtLastError,   \* the local lastError
    rtCalls,       \* how many times operation() has been invoked
    rtWaits,       \* the backoff delays waited so far, in order
    rtErrors,      \* the errors operation() has raised so far, in order
    rtOutcome,     \* what retryOperation returned or threw
    svcVariant,    \* which GeminiService class runs: retry, timeout, rethrow
    svcOp,         \* "summarize" or "reply"
    svcThread,     \* threadContent.text
    svcHF,         \* whether this.hf is set (HUGGINGFACE_API_KEY present)
    svcPc,         \* where the service call stands
    svcHFIndex,    \* index of the Hugging Face model being tried
    svcCalls,      \* the provider specs invoked so far, in order
    svcLog,        \* the provider calls settled so far, in order
    svcLate,       \* calls still in flight after their timeout fired
    svcOutcome,    \* what the service call returned or threw
    httpNow,       \* Date.now(), in seconds
    httpClock,     \* how many times the clock has been advanced
    httpCap,       \* how many requests this run sends, by route
    httpSeq,       \* how many requests have arrived, by route
    cache,         \* the NodeCache: key -> [v, setAt]
    limiters,      \* RateLimiterMemory storage: route -> client -> record
    httpInFlight,  \* requests past cacheMiddleware that await, oldest first
    httpLast,      \* the last response sent
    cwtPc,         \* callWithTimeout: start, called
    cwtTimeoutMs,  \* its timeoutMs argument
    cwtNow,        \* time since the call, in ticks
    cwtTimer,      \* the setTimeout timer: none, armed, fired, cleared
    cwtOperation,  \* the promise of operation(): pending or its outcome
    cwtDelivered,  \* the resolve / reject calls made so far, in order
    cwtPromise,    \* the promise callWithTimeout returned: its outcome
    lmQuota,       \* RATE_LIMIT_COUNT of the router that runs: 100 or 10
    lmNow,         \* Date.now(), in ms
    lmClock,       \* how many times the clock has been advanced
    lmSeq,         \* how many requests have arrived
    rateLimit,     \* the rateLimit object: clientId -> { count, resetTime }
    lmInFlight,    \* clients whose requests are in their route handler
    lmLast,        \* the last arrival: client, time, whether it was rejected
    instHF,        \* this.hf of the shared GeminiService instance is set
    mathRandom,    \* the generator behind Math.random(), one per process
    invocations    \* the summarizeThread / generateReply calls in flight

fnVars == <<fnInput, fnPath, fnResult>>

rtVars == <<rtVariant, rtPc, rtMaxRetries, rtDelay, rtI, rtLastError, rtCalls,
            rtWaits, rtErrors, rtOutcome>>

svcVars == <<svcVariant, svcOp, svcThread, svcHF, svcPc, svcHFIndex, svcCalls,
             svcLog, svcLate, svcOutcome>>

httpVars == <<httpNow, httpClock, httpCap, httpSeq, cache, limiters,
              httpInFlight, httpLast>>

cwtVars == <<cwtPc, cwtTimeoutMs, cwtNow, cwtTimer, cwtOperation, cwtDelivered,
             cwtPromise>>

lmVars == <<lmQuota, lmNow, lmClock, lmSeq, rateLimit, lmInFlight, lmLast>>

concVars == <<instHF, mathRandom, invocations>>

vars == <<fnVars, rtVars, svcVars, httpVars, cwtVars, lmVars, concVars>>

otherThanFn == <<rtVars, svcVars, httpVars, cwtVars, lmVars, concVars>>

otherThanRt == <<fnVars, svcVars, httpVars, cwtVars, lmVars, concVars>>

otherThanSvc == <<fnVars, httpVars, cwtVars, lmVars, concVars>>

otherThanHttp == <<fnVars, rtVars, cwtVars, lmVars, concVars>>

otherThanCwt == <<fnVars, rtVars, svcVars, httpVars, lmVars, concVars>>

otherThanLm == <<fnVars, rtVars, svcVars, httpVars, cwtVars, concVars>>

otherThanConc == <<fnVars, rtVars, svcVars, httpVars, cwtVars, lmVars>>

NoOutcome == [status |-> "none", value |-> <<>>, error |-> NoError]

Returned(v) == [status |-> "returned", value |-> v, error |-> NoError]

Thrown(e) == [status |-> "thrown", value |-> <<>>, error |-> e]

FnIdle == fnInput = <<>> /\ fnPath = "idle" /\ fnResult = NoResult

RtIdle ==
    /\ rtVariant = "none"
    /\ rtPc = "idle"
    /\ rtMaxRetries = 0
    /\ rtDelay = 0
    /\ rtI = 0
    /\ rtLastError = NoError
    /\ rtCalls = 0
    /\ rtWaits = <<>>
    /\ rtErrors = <<>>
    /\ rtOutcome = NoOutcome

SvcIdle ==
    /\ svcVariant = "none"
    /\ svcOp = "none"
    /\ svcThread = <<>>
    /\ svcHF = FALSE
    /\ svcPc = "idle"
    /\ svcHFIndex = 0
    /\ svcCalls = <<>>
    /\ svcLog = <<>>
    /\ svcLate = {}
    /\ svcOutcome = NoOutcome

\* a response: what was sent, and what the request went through; flushed
\* is the set of cache keys a /clear-cache request removed
NoResponse ==
    [url |-> <<>>, client |-> "", at |-> 0, status |-> 0,
     body |-> <<>>, cacheMiddleware |-> FALSE, fromCache |-> "absent",
     key |-> <<>>, consumed |-> FALSE, handled |-> FALSE, called |-> FALSE,
     flushed |-> {}]

HttpIdle ==
    /\ httpNow = 0
    /\ httpClock = 0
    /\ httpCap = <<>>
    /\ httpSeq = <<>>
    /\ cache = <<>>
    /\ limiters = <<>>
    /\ httpInFlight = <<>>
    /\ httpLast = NoResponse

CwtIdle ==
    /\ cwtPc = "idle"
    /\ cwtTimeoutMs = 0
    /\ cwtNow = 0
    /\ cwtTimer = "none"
    /\ cwtOperation = NoOutcome
    /\ cwtDelivered = <<>>
    /\ cwtPromise = NoOutcome

\* no arrival yet
NoArrival == [client |-> "", at |-> 0, rejected |-> FALSE]

LmIdle ==
    /\ lmQuota = 0
    /\ lmNow = 0
    /\ lmClock = 0
    /\ lmSeq = 0
    /\ rateLimit = <<>>
    /\ lmInFlight = <<>>
    /\ lmLast = NoArrival

\* the generator behind Math.random(): the values its calls return, in
\* order, and how many of them have been drawn
Generator(values) == [values |-> values, drawn |-> 0]

ConcIdle ==
    /\ instHF = FALSE
    /\ mathRandom = Generator(<<>>)
    /\ invocations = <<>>

(***************************************************************************)
(* SpecFn: the parser and the heuristics applied to bounded inputs         *)
(***************************************************************************)
InitFn ==
    /\ fnInput \in Texts
    /\ fnPath = "pending"
    /\ fnResult = NoResult
    /\ RtIdle
    /\ SvcIdle
    /\ HttpIdle
    /\ CwtIdle
    /\ LmIdle
    /\ ConcIdle

ParseSummaryResponse ==
    /\ fnPath = "pending"
    /\ fnResult' = parseSummaryResponse(fnInput)
    /\ fnPath' = "parseSummaryResponse"
    /\ UNCHANGED <<fnInput, otherThanFn>>

GenerateIntelligentSummary ==
    /\ fnPath = "pending"
    /\ fnResult' = generateIntelligentSummary(fnInput)
    /\ fnPath' = "generateIntelligentSummary"
    /\ UNCHANGED <<fnInput, otherThanFn>>

ParseIntelligentHFResponse ==
    /\ fnPath = "pending"
    /\ fnResult' = parseIntelligentHFResponse(fnInput)
    /\ fnPath' = "parseIntelligentHFResponse"
    /\ UNCHANGED <<fnInput, otherThanFn>>

NextFn ==
    \/ ParseSummaryResponse
    \/ GenerateIntelligentSummary
    \/ ParseIntelligentHFResponse

SpecFn == InitFn /\ [][NextFn]_vars

(***************************************************************************)
(* SpecParse: parseSummaryResponse of the class at gemini.js:604 and of    *)
(* the class at gemini.js:482 applied to bounded inputs                    *)
(***************************************************************************)
ParseSummaryResponseUncapped ==
    /\ fnPath = "pending"
    /\ fnResult' = parseSummaryResponseUncapped(fnInput)
    /\ fnPath' = "parseSummaryResponseUncapped"
    /\ UNCHANGED <<fnInput, otherThanFn>>

NextParse ==
    \/ ParseSummaryResponse
    \/ ParseSummaryResponseUncapped

SpecParse == InitFn /\ [][NextParse]_vars

(***************************************************************************)
(* SpecRetry: GeminiService.retryOperation(operation, maxRetries, delay)   *)
(***************************************************************************)
MaxRetriesArg == 4

\* retryOperation(operation, maxRetries = 3, delay = 1000) of gemini.js:382
DefaultMaxRetries == 3

DefaultDelay == 1000

\* retryOperation(operation, maxRetries = 2, delay = 500) of part_002:348
ReducedMaxRetries == 2

ReducedDelay == 500

RetryDelays == {ReducedDelay, DefaultDelay}

\* the retryOperation of gemini.js:382 and part_001:61 ("exponential") and
\* the one of part_002:348 ("linear")
RetryVariants == {"exponential", "linear"}

\* what the operation can resolve with
OperationValues == {L_Plain, WellFormed(B_Point1, B_Point2, LongBody, B_Quote1, B_Quote2)}

\* what the operation can reject with
RetryErrors == ProviderErrors \cup {Err(M_Timeout30000), Err(M_NetworkTimeout)}

\* gemini.js:406: const waitTime = delay * Math.pow(2, i)
waitTime(delay, i) == delay * (2 ^ i)

\* part_002:370: const waitTime = delay * (i + 1)
waitTimeLinear(delay, i) == delay * (i + 1)

\* gemini.js:388-408, the catch block decides: throw the error, or wait
\* and retry
retryDecision(e, i, maxRetries) ==
    IF ~e.hasMessage THEN "typeerror"
    ELSE IF ~isTransientMessage(e) THEN "throw"
    ELSE IF i = maxRetries - 1 THEN "throw"
    ELSE "wait"

\* part_002:358-360: error.message.includes('429') ||
\* error.message.includes('quota') || error.message.includes('timeout')
isQuotaOrTimeoutMessage(e) ==
    \/ includes(e.message, S_429)
    \/ includes(e.message, S_quota)
    \/ includes(e.message, S_timeout)

\* part_002:353-372, the catch block decides: throw the error, or wait
\* and retry
retryDecisionLinear(e, i, maxRetries) ==
    IF ~e.hasMessage THEN "typeerror"
    ELSE IF isQuotaOrTimeoutMessage(e) THEN "throw"
    ELSE IF i = maxRetries - 1 THEN "throw"
    ELSE "wait"

InitRetry ==
    /\ FnIdle
    /\ SvcIdle
    /\ HttpIdle
    /\ CwtIdle
    /\ LmIdle
    /\ ConcIdle
    /\ rtVariant \in RetryVariants
    /\ rtPc = "start"
    /\ rtMaxRetries \in 1..MaxRetriesArg
    /\ rtDelay \in RetryDelays
    /\ rtI = 0
    /\ rtLastError = NoError
    /\ rtCalls = 0
    /\ rtWaits = <<>>
    /\ rtErrors = <<>>
    /\ rtOutcome = NoOutcome

\* entry: let lastError; i = 0; first operation() call
RetryOperation ==
    /\ rtPc = "start"
    /\ rtI' = 0
    /\ rtCalls' = 1
    /\ rtPc' = "awaiting"
    /\ UNCHANGED <<rtVariant, rtMaxRetries, rtDelay, rtLastError, rtWaits,
                   rtErrors, rtOutcome, otherThanRt>>

\* return await operation()
OperationResolves ==
    /\ rtPc = "awaiting"
    /\ \E v \in OperationValues : rtOutcome' = Returned(v)
    /\ rtPc' = "returned"
    /\ UNCHANGED <<rtVariant, rtMaxRetries, rtDelay, rtI, rtLastError, rtCalls,
                   rtWaits, rtErrors, otherThanRt>>

\* catch (error) { ... }
OperationRejects ==
    /\ rtPc = "awaiting"
    /\ \E e \in RetryErrors :
          LET d == IF rtVariant = "linear"
                   THEN retryDecisionLinear(e, rtI, rtMaxRetries)
                   ELSE retryDecision(e, rtI, rtMaxRetries)
              w == IF rtVariant = "linear" THEN waitTimeLinear(rtDelay, rtI)
                   ELSE waitTime(rtDelay, rtI)
          IN  /\ rtLastError' = e
              /\ rtErrors' = Append(rtErrors, e)
              /\ rtPc' = IF d = "wait" THEN "waiting" ELSE "thrown"
              /\ rtOutcome' = IF d = "wait" THEN rtOutcome
                              ELSE IF d = "typeerror" THEN Thrown(messageTypeError(e))
                              ELSE Thrown(e)
              /\ rtWaits' = IF d = "wait" THEN Append(rtWaits, w) ELSE rtWaits
    /\ UNCHANGED <<rtVariant, rtMaxRetries, rtDelay, rtI, rtCalls, otherThanRt>>

\* the setTimeout of the backoff fires; i++ and the next operation() call
BackoffElapses ==
    /\ rtPc = "waiting"
    /\ rtI' = rtI + 1
    /\ rtCalls' = rtCalls + 1
    /\ rtPc' = "awaiting"
    /\ UNCHANGED <<rtVariant, rtMaxRetries, rtDelay, rtLastError, rtWaits,
                   rtErrors, rtOutcome, otherThanRt>>

NextRetry ==
    \/ RetryOperation
    \/ OperationResolves
    \/ OperationRejects
    \/ BackoffElapses

SpecRetry == InitRetry /\ [][NextRetry]_vars

\* every operation() call settles and every timer fires
FairSpecRetry ==
    /\ SpecRetry
    /\ WF_vars(RetryOperation)
    /\ WF_vars(OperationResolves \/ OperationRejects)
    /\ WF_vars(BackoffElapses)

(***************************************************************************)
(* SpecTimeout: GeminiService.callWithTimeout(operation, timeoutMs)        *)
(***************************************************************************)
MaxTicks == 7

\* the timeoutMs arguments of the four call sites
TimeoutsMs == {15000, 20000, 30000}

\* one tick of cwtNow is 5000 ms
ticks(ms) == ms \div 5000

\* `Operation timed out after ${timeoutMs}ms`
timeoutMessage(timeoutMs) ==
    IF timeoutMs = 30000 THEN M_Timeout30000
    ELSE IF timeoutMs = 20000 THEN M_Timeout20000
    ELSE M_Timeout15000

Pending == [status |-> "pending", value |-> <<>>, error |-> NoError]

\* resolve(v) / reject(e) of the promise executor: only the first call
\* settles the promise
settle(promise, outcome) ==
    IF promise = Pending THEN outcome ELSE promise

\* variant of clearTimeout that leaves the timer armed
clearTimeout_Forgotten(timer) == timer

\* clearTimeout(timeout): cancels the timer unless it has already fired
clearTimeout(timer) == IF timer = "armed" THEN "cleared" ELSE timer

InitTimeout ==
    /\ FnIdle
    /\ RtIdle
    /\ SvcIdle
    /\ HttpIdle
    /\ LmIdle
    /\ ConcIdle
    /\ cwtPc = "start"
    /\ cwtTimeoutMs \in TimeoutsMs
    /\ cwtNow = 0
    /\ cwtTimer = "none"
    /\ cwtOperation = NoOutcome
    /\ cwtDelivered = <<>>
    /\ cwtPromise = NoOutcome

\* new Promise(...): setTimeout(..., timeoutMs), then operation()
CallWithTimeout ==
    /\ cwtPc = "start"
    /\ cwtPc' = "called"
    /\ cwtTimer' = "armed"
    /\ cwtOperation' = Pending
    /\ cwtPromise' = Pending
    /\ UNCHANGED <<cwtTimeoutMs, cwtNow, cwtDelivered, otherThanCwt>>

\* time goes by; an armed timer is not run before its delay has passed
Tick ==
    /\ cwtPc = "called"
    /\ cwtNow < MaxTicks
    /\ cwtNow' = cwtNow + 1
    /\ UNCHANGED <<cwtPc, cwtTimeoutMs, cwtTimer, cwtOperation, cwtDelivered,
                   cwtPromise, otherThanCwt>>

\* the timer callback: reject(new Error(`Operation timed out ...`))
TimerFires ==
    /\ cwtTimer = "armed"
    /\ cwtNow >= ticks(cwtTimeoutMs)
    /\ cwtTimer' = "fired"
    /\ cwtDelivered' = Append(cwtDelivered, Thrown(Err(timeoutMessage(cwtTimeoutMs))))
    /\ cwtPromise' = settle(cwtPromise, Thrown(Err(timeoutMessage(cwtTimeoutMs))))
    /\ UNCHANGED <<cwtPc, cwtTimeoutMs, cwtNow, cwtOperation, otherThanCwt>>

\* operation() settled with outcome o: the .then / .catch callback runs
OperationSettles(o) ==
    /\ cwtOperation = Pending
    /\ cwtOperation' = o
    /\ cwtTimer' = clearTimeout(cwtTimer)
    /\ cwtDelivered' = Append(cwtDelivered, o)
    /\ cwtPromise' = settle(cwtPromise, o)
    /\ UNCHANGED <<cwtPc, cwtTimeoutMs, cwtNow, otherThanCwt>>

\* .then((result) => { clearTimeout(timeout); resolve(result); })
OperationThen == \E v \in OperationValues : OperationSettles(Returned(v))

\* .catch((error) => { clearTimeout(timeout); reject(error); })
OperationCatch == \E e \in ProviderErrors : OperationSettles(Thrown(e))

NextTimeout ==
    \/ CallWithTimeout
    \/ Tick
    \/ TimerFires
    \/ OperationThen
    \/ OperationCatch

SpecTimeout == InitTimeout /\ [][NextTimeout]_vars

(***************************************************************************)
(* SpecSvc: GeminiService.summarizeThread and generateReply, one call      *)
(*   "timeout": the class at gemini.js:604 (callWithTimeout, heuristics)   *)
(*   "retry":   the class at gemini.js:4 (retryOperation, model list)      *)
(*   "rethrow": the class at gemini.js:482 (Gemini only)                   *)
(***************************************************************************)
ThreadTexts ==
    {<<>>, L_Short, T_Thanks, join(<<L_Plain, T_TwoLines>>, NL),
     L_Dash \o LongBody}

GeminiResponses == OperationValues

HFResponses == {B_Sentence, L_Short, <<>>}

\* rejections of a Hugging Face call
HFErrors ==
    {Err(M_FetchFailed), NoMessageError, UndefinedRejection, NullRejection}

\* summarizationModels followed by generationModels (gemini.js:130-164)
HFModels ==
    <<"facebook/bart-large-cnn", "sshleifer/distilbart-cnn-12-6",
      "google/flan-t5-base", "gpt2">>

\* modelsToTry of generateReplyWithHuggingFace (gemini.js:223-227)
ReplyModels == <<"google/flan-t5-base", "microsoft/DialoGPT-medium", "gpt2">>

\* the model list summarizeWithHuggingFace / generateReplyWithHuggingFace of
\* the class at gemini.js:4 goes through
modelsToTry(op) == IF op = "summarize" THEN HFModels ELSE ReplyModels

\* console.warn(..., modelError.message) in the catch of one model
\* (gemini.js:155, 198, 253) throws when the rejection value is undefined or
\* null; the outer catch then ends the loop
modelCatchThrows(e) == e.kind \in {"undefined", "null"}

\* variant of nextModel that goes back to the first model
nextModel_Restart(i) == 1

\* for (const model of ...) { try { ... } catch (modelError) { continue; } }
nextModel(i) == i + 1

Settled(spec, ok, value, error) ==
    [spec |-> spec, ok |-> ok, value |-> value, error |-> error]

\* the timer of callWithTimeout rejects with this error
TimeoutError(op, provider) ==
    IF provider = "gemini"
    THEN (IF op = "summarize" THEN Err(M_Timeout30000) ELSE Err(M_Timeout20000))
    ELSE (IF op = "summarize" THEN Err(M_Timeout20000) ELSE Err(M_Timeout15000))

\* variant of catchGemini that guards the message access
catchGemini_Guarded(e, hf) ==
    IF e.hasMessage /\ isQuotaMessage(e) /\ hf THEN "huggingface" ELSE "local"

\* the catch block of summarizeThread / generateReply (gemini.js:662-677)
catchGemini(e, hf) ==
    IF ~e.hasMessage THEN "throw"
    ELSE IF isQuotaMessage(e) /\ hf THEN "huggingface"
    ELSE "local"

\* the values Math.random() is drawn from
Randoms == {0, 5, 9, 10, 14, 19}

\* generateIntelligentSummary(threadContent) / generateIntelligentReply(...)
LocalOutcomes(op, thread, randoms) ==
    IF op = "summarize" THEN {Returned(generateIntelligentSummary(thread))}
    ELSE {Returned(generateIntelligentReply(thread, random)) : random \in randoms}

\* what the call returns once Gemini answered with raw
GeminiSuccess(op, raw) ==
    IF op = "summarize" THEN Returned(parseSummaryResponse(trim(raw)))
    ELSE Returned(trim(raw))

\* variant of HFSuccess that drops the generated text
HFSuccess_DropsText(op, generatedText) ==
    IF op = "summarize" THEN Returned(parseIntelligentHFResponse(<<>>))
    ELSE Returned(extractCleanReply(<<>>))

\* what the call returns once a Hugging Face generation answered
HFSuccess(op, generatedText) ==
    IF op = "summarize" THEN Returned(parseIntelligentHFResponse(generatedText))
    ELSE Returned(extractCleanReply(generatedText))

InitSvc ==
    /\ FnIdle
    /\ RtIdle
    /\ HttpIdle
    /\ CwtIdle
    /\ LmIdle
    /\ ConcIdle
    /\ svcVariant \in {"retry", "timeout", "rethrow"}
    /\ svcOp \in {"summarize", "reply"}
    /\ svcThread \in ThreadTexts
    /\ svcHF \in BOOLEAN
    /\ svcPc = "start"
    /\ svcHFIndex = 0
    /\ svcCalls = <<>>
    /\ svcLog = <<>>
    /\ svcLate = {}
    /\ svcOutcome = NoOutcome

\* summarizeThread up to the await of callWithTimeout(callGeminiAPI, 30000)
SummarizeThread ==
    /\ svcPc = "start" /\ svcVariant = "timeout" /\ svcOp = "summarize"
    /\ svcPc' = "gemini"
    /\ svcCalls' = Append(svcCalls, "gemini")
    /\ UNCHANGED <<svcVariant, svcOp, svcThread, svcHF, svcHFIndex, svcLog,
                   svcLate, svcOutcome, rtVars, otherThanSvc>>

\* generateReply up to the await of callWithTimeout(callGeminiAPI, 20000)
GenerateReply ==
    /\ svcPc = "start" /\ svcVariant = "timeout" /\ svcOp = "reply"
    /\ svcPc' = "gemini"
    /\ svcCalls' = Append(svcCalls, "gemini")
    /\ UNCHANGED <<svcVariant, svcOp, svcThread, svcHF, svcHFIndex, svcLog,
                   svcLate, svcOutcome, rtVars, otherThanSvc>>

GeminiResolves ==
    /\ svcPc = "gemini"
    /\ \E raw \in GeminiResponses :
          /\ svcLog' = Append(svcLog, Settled("gemini", TRUE, raw, NoError))
          /\ svcOutcome' = GeminiSuccess(svcOp, raw)
    /\ svcPc' = "returned"
    /\ UNCHANGED <<svcVariant, svcOp, svcThread, svcHF, svcHFIndex, svcCalls,
                   svcLate, rtVars, otherThanSvc>>

\* the catch block, entered with error e
GeminiFailsWith(e) ==
    LET d == catchGemini(e, svcHF)
    IN  /\ svcLog' = Append(svcLog, Settled("gemini", FALSE, <<>>, e))
        /\ \/ /\ d = "throw"
              /\ svcPc' = "thrown"
              /\ svcOutcome' = Thrown(messageTypeError(e))
              /\ UNCHANGED svcCalls
           \/ /\ d = "huggingface"
              /\ svcPc' = "hf_auto"
              /\ svcCalls' = Append(svcCalls, "hf:auto")
              /\ UNCHANGED svcOutcome
           \/ /\ d = "local"
              /\ svcPc' = "returned"
              /\ svcOutcome' \in LocalOutcomes(svcOp, svcThread, Randoms)
              /\ UNCHANGED svcCalls

GeminiRejects ==
    /\ svcPc = "gemini"
    /\ \E e \in ProviderErrors : GeminiFailsWith(e)
    /\ UNCHANGED <<svcVariant, svcOp, svcThread, svcHF, svcHFIndex, svcLate,
                   rtVars, otherThanSvc>>

\* the timer fires first; the Gemini call stays in flight
GeminiTimesOut ==
    /\ svcPc = "gemini"
    /\ GeminiFailsWith(TimeoutError(svcOp, "gemini"))
    /\ svcLate' = {"gemini"}
    /\ UNCHANGED <<svcVariant, svcOp, svcThread, svcHF, svcHFIndex, rtVars,
                   otherThanSvc>>

\* either textGeneration call answers inside the timeout
HFResolves ==
    /\ svcPc \in {"hf_auto", "hf_gpt2"}
    /\ \E text \in HFResponses :
          /\ svcLog' = Append(svcLog,
                 Settled(svcCalls[Len(svcCalls)], TRUE, text, NoError))
          /\ svcOutcome' = HFSuccess(svcOp, text)
    /\ svcPc' = "returned"
    /\ UNCHANGED <<svcVariant, svcOp, svcThread, svcHF, svcHFIndex, svcCalls,
                   svcLate, rtVars, otherThanSvc>>

\* the inner catch: auto-selection failed, try gpt2
HFAutoRejects ==
    /\ svcPc = "hf_auto"
    /\ \E e \in HFErrors :
          svcLog' = Append(svcLog, Settled("hf:auto", FALSE, <<>>, e))
    /\ svcPc' = "hf_gpt2"
    /\ svcCalls' = Append(svcCalls, "hf:gpt2")
    /\ UNCHANGED <<svcVariant, svcOp, svcThread, svcHF, svcHFIndex, svcLate,
                   svcOutcome, rtVars, otherThanSvc>>

\* the outer catch of summarizeWithHuggingFace / generateReplyWithHuggingFace
HFGpt2Rejects ==
    /\ svcPc = "hf_gpt2"
    /\ \E e \in HFErrors :
          svcLog' = Append(svcLog, Settled("hf:gpt2", FALSE, <<>>, e))
    /\ svcPc' = "returned"
    /\ svcOutcome' \in LocalOutcomes(svcOp, svcThread, Randoms)
    /\ UNCHANGED <<svcVariant, svcOp, svcThread, svcHF, svcHFIndex, svcCalls,
                   svcLate, rtVars, otherThanSvc>>

\* the timer around both Hugging Face calls fires first
HFTimesOut ==
    /\ svcPc \in {"hf_auto", "hf_gpt2"}
    /\ svcLog' = Append(svcLog,
           Settled(svcCalls[Len(svcCalls)], FALSE, <<>>,
                   TimeoutError(svcOp, "huggingface")))
    /\ svcLate' = {svcCalls[Len(svcCalls)]}
    /\ svcPc' = "returned"
    /\ svcOutcome' \in LocalOutcomes(svcOp, svcThread, Randoms)
    /\ UNCHANGED <<svcVariant, svcOp, svcThread, svcHF, svcHFIndex, svcCalls,
                   rtVars, otherThanSvc>>

\* after the timeout the auto-selected call rejects: its catch still calls
\* gpt2, whose result nobody reads
LateHFAutoRejects ==
    /\ "hf:auto" \in svcLate
    /\ svcLate' = {"hf:gpt2"}
    /\ svcCalls' = Append(svcCalls, "hf:gpt2")
    /\ UNCHANGED <<svcVariant, svcOp, svcThread, svcHF, svcPc, svcHFIndex,
                   svcLog, svcOutcome, rtVars, otherThanSvc>>

\* a call that outlived its timeout settles: resolve / reject of the
\* already settled promise do nothing
LateSettles ==
    /\ svcLate # {}
    /\ svcLate' = {}
    /\ UNCHANGED <<svcVariant, svcOp, svcThread, svcHF, svcPc, svcHFIndex,
                   svcCalls, svcLog, svcOutcome, rtVars, otherThanSvc>>

\* class at gemini.js:4: summarizeThread up to
\* await this.retryOperation(() => this.callGeminiAPI(prompt))
SummarizeThreadRetry ==
    /\ svcPc = "start" /\ svcVariant = "retry" /\ svcOp = "summarize"
    /\ svcPc' = "gemini_retry"
    /\ rtVariant' = "exponential"
    /\ rtPc' = "start"
    /\ rtMaxRetries' = DefaultMaxRetries
    /\ rtDelay' = DefaultDelay
    /\ UNCHANGED <<rtI, rtLastError, rtCalls, rtWaits, rtErrors, rtOutcome>>
    /\ UNCHANGED <<svcVariant, svcOp, svcThread, svcHF, svcHFIndex, svcCalls,
                   svcLog, svcLate, svcOutcome, otherThanSvc>>

\* class at gemini.js:4: generateReply up to
\* await this.retryOperation(() => this.callGeminiAPI(prompt))
GenerateReplyRetry ==
    /\ svcPc = "start" /\ svcVariant = "retry" /\ svcOp = "reply"
    /\ svcPc' = "gemini_retry"
    /\ rtVariant' = "exponential"
    /\ rtPc' = "start"
    /\ rtMaxRetries' = DefaultMaxRetries
    /\ rtDelay' = DefaultDelay
    /\ UNCHANGED <<rtI, rtLastError, rtCalls, rtWaits, rtErrors, rtOutcome>>
    /\ UNCHANGED <<svcVariant, svcOp, svcThread, svcHF, svcHFIndex, svcCalls,
                   svcLog, svcLate, svcOutcome, otherThanSvc>>

\* retryOperation returned: parse (summarizeThread) or return the text
\* (generateReply); or threw: the catch block (gemini.js:59, 103), which
\* returns the fixed structure or "Thanks for sharing these insights!" when
\* it does not go on to Hugging Face
RetrySettled ==
    /\ svcPc = "gemini_retry"
    /\ rtPc \in {"returned", "thrown"}
    /\ \/ /\ rtPc = "returned"
          /\ svcPc' = "returned"
          /\ svcOutcome' =
                 IF svcOp = "summarize"
                 THEN Returned(parseSummaryResponse(trim(rtOutcome.value)))
                 ELSE Returned(trim(rtOutcome.value))
          /\ UNCHANGED <<svcCalls, svcHFIndex>>
       \/ /\ rtPc = "thrown"
          /\ isQuotaMessage(rtOutcome.error) /\ svcHF
          /\ svcPc' = "hf_models"
          /\ svcHFIndex' = 1
          /\ svcCalls' = Append(svcCalls, modelsToTry(svcOp)[1])
          /\ UNCHANGED svcOutcome
       \/ /\ rtPc = "thrown"
          /\ ~(isQuotaMessage(rtOutcome.error) /\ svcHF)
          /\ svcPc' = "returned"
          /\ svcOutcome' = IF svcOp = "summarize" THEN Returned(FallbackStructure)
                           ELSE Returned(R_Neutral1)
          /\ UNCHANGED <<svcCalls, svcHFIndex>>
    /\ UNCHANGED <<svcVariant, svcOp, svcThread, svcHF, svcLog, svcLate,
                   rtVars, otherThanSvc>>

\* what the basic fallback of the class at gemini.js:4 returns
BasicOutcomes(op, thread, randoms) ==
    IF op = "summarize" THEN {Returned(generateBasicSummary(thread))}
    ELSE {Returned(generateBasicReply(random)) : random \in randoms}

\* summarizeThread: hf.summarization (models 1, 2) or hf.textGeneration
\* (models 3, 4) answers; generateReply: hf.textGeneration answers
HFModelResolves ==
    /\ svcPc = "hf_models"
    /\ \E text \in HFResponses :
          /\ svcLog' = Append(svcLog,
                 Settled(modelsToTry(svcOp)[svcHFIndex], TRUE, text, NoError))
          /\ svcOutcome' = IF svcOp = "reply" THEN Returned(trim(text))
                           ELSE IF svcHFIndex <= 2
                           THEN Returned(convertHFSummaryToOurFormat(text))
                           ELSE Returned(parseSummaryResponse(text))
    /\ svcPc' = "returned"
    /\ UNCHANGED <<svcVariant, svcOp, svcThread, svcHF, svcHFIndex, svcCalls,
                   svcLate, rtVars, otherThanSvc>>

\* catch (modelError) { console.warn(..., modelError.message); continue; }
\* and the outer catch with generateBasicSummary / generateBasicReply, which
\* is reached after the last model or when the catch of a model throws
HFModelRejects ==
    /\ svcPc = "hf_models"
    /\ \E e \in HFErrors :
          /\ svcLog' = Append(svcLog,
                 Settled(modelsToTry(svcOp)[svcHFIndex], FALSE, <<>>, e))
          /\ \/ /\ ~modelCatchThrows(e)
                /\ svcHFIndex < Len(modelsToTry(svcOp))
                /\ svcHFIndex' = nextModel(svcHFIndex)
                /\ svcCalls' = Append(svcCalls,
                                      modelsToTry(svcOp)[nextModel(svcHFIndex)])
                /\ UNCHANGED <<svcPc, svcOutcome>>
             \/ /\ modelCatchThrows(e) \/ svcHFIndex = Len(modelsToTry(svcOp))
                /\ svcPc' = "returned"
                /\ svcOutcome' \in BasicOutcomes(svcOp, svcThread, Randoms)
                /\ UNCHANGED <<svcHFIndex, svcCalls>>
    /\ UNCHANGED <<svcVariant, svcOp, svcThread, svcHF, svcLate, rtVars,
                   otherThanSvc>>

\* class at gemini.js:482: summarizeThread / generateReply up to
\* await this.model.generateContent(prompt)
GenerateContent ==
    /\ svcPc = "start" /\ svcVariant = "rethrow"
    /\ svcPc' = "gemini_only"
    /\ svcCalls' = Append(svcCalls, "gemini")
    /\ UNCHANGED <<svcVariant, svcOp, svcThread, svcHF, svcHFIndex, svcLog,
                   svcLate, svcOutcome, rtVars, otherThanSvc>>

GenerateContentResolves ==
    /\ svcPc = "gemini_only"
    /\ \E raw \in GeminiResponses :
          /\ svcLog' = Append(svcLog, Settled("gemini", TRUE, raw, NoError))
          /\ svcOutcome' = IF svcOp = "summarize"
                           THEN Returned(parseSummaryResponseUncapped(raw))
                           ELSE Returned(trim(raw))
    /\ svcPc' = "returned"
    /\ UNCHANGED <<svcVariant, svcOp, svcThread, svcHF, svcHFIndex, svcCalls,
                   svcLate, rtVars, otherThanSvc>>

\* the catch block at gemini.js:507 and 533: every error is thrown on
GenerateContentRejects ==
    /\ svcPc = "gemini_only"
    /\ \E e \in ProviderErrors :
          /\ svcLog' = Append(svcLog, Settled("gemini", FALSE, <<>>, e))
          /\ svcOutcome' =
                 IF ~e.hasMessage THEN Thrown(messageTypeError(e))
                 ELSE IF includes(e.message, S_429)
                 THEN Thrown(Err(M_RateLimitExceeded))
                 ELSE Thrown(Err(M_GeminiApiErrorPrefix \o e.message))
    /\ svcPc' = "thrown"
    /\ UNCHANGED <<svcVariant, svcOp, svcThread, svcHF, svcHFIndex, svcCalls,
                   svcLate, rtVars, otherThanSvc>>

NextSvc ==
    \/ SummarizeThread
    \/ GenerateReply
    \/ GeminiResolves
    \/ GeminiRejects
    \/ GeminiTimesOut
    \/ HFResolves
    \/ HFAutoRejects
    \/ HFGpt2Rejects
    \/ HFTimesOut
    \/ LateHFAutoRejects
    \/ LateSettles
    \/ SummarizeThreadRetry
    \/ GenerateReplyRetry
    \/ RetryOperation
    \/ OperationResolves
    \/ OperationRejects
    \/ BackoffElapses
    \/ RetrySettled
    \/ HFModelResolves
    \/ HFModelRejects
    \/ GenerateContent
    \/ GenerateContentResolves
    \/ GenerateContentRejects

SpecSvc == InitSvc /\ [][NextSvc]_vars

\* what the catch block of the class at gemini.js:604 can end in after
\* Gemini failed with e
OutcomesAfter(op, thread, hf, e, hfResponses, randoms) ==
    IF catchGemini(e, hf) = "throw" THEN {Thrown(messageTypeError(e))}
    ELSE IF catchGemini(e, hf) = "huggingface"
    THEN {HFSuccess(op, text) : text \in hfResponses}
             \cup LocalOutcomes(op, thread, randoms)
    ELSE LocalOutcomes(op, thread, randoms)

\* every way a call of summarizeThread / generateReply of that class ends
\* for the given provider answers, provider errors and random draws
ServiceOutcomes(op, thread, hf, geminiResponses, errors, hfResponses, randoms) ==
    {GeminiSuccess(op, raw) : raw \in geminiResponses}
        \cup UNION {OutcomesAfter(op, thread, hf, e, hfResponses, randoms) :
                        e \in errors}

(***************************************************************************)
(* SpecHttp: the router of routes/api.js (cache, rate limiters, handlers)  *)
(***************************************************************************)
MaxRequests == 3

MaxClockSteps == 1

MaxInFlight == 2

\* the same for the reply route under load
LoadInFlight == 1

stdTTL == 1800

summaryPoints == 10

replyPoints == 5

limiterDuration == 60

\* seconds the clock may jump in one step: to the end of the time-to-live
\* and past it
ClockSteps == {stdTTL, stdTTL + 1}

\* the same for the reply route under load: to the end of the window
LoadClockSteps == {limiterDuration}

\* summarizeThread and generateReply give up on a provider after 30 s and
\* 20 s: a request is not in flight longer than that
ServiceBudget == 50

\* what the providers do while the router is exercised
HttpGeminiResponses == {L_Short}

HttpProviderErrors == {Err(M_FetchFailed), NoMessageError}

HttpHFResponses == {B_Sentence}

HttpRandoms == {0}

Clients == {"10.0.0.1", "10.0.0.2"}

Routes == {"summarize", "reply"}

\* a value of req.body as express.json() parsed it: type is the type of
\* the value, str the text of a string, a number (as JSON.stringify writes
\* it) or a boolean, keys the own property names of an object in property
\* order, items the elements of an array or the values of the properties.
\* Strings are sequences of UTF-16 code units without lone surrogates.
JSONValue(type, str, keys, items) ==
    [type |-> type, str |-> str, keys |-> keys, items |-> items]

\* what reading a property that is not there gives
Undefined == JSONValue("undefined", <<>>, <<>>, <<>>)

JNull == JSONValue("null", <<>>, <<>>, <<>>)

JBoolean(b) ==
    JSONValue("boolean", IF b THEN <<"t", "r", "u", "e">>
                         ELSE <<"f", "a", "l", "s", "e">>, <<>>, <<>>)

JNumber(text) == JSONValue("number", text, <<>>, <<>>)

JString(s) == JSONValue("string", s, <<>>, <<>>)

JArray(items) == JSONValue("array", <<>>, <<>>, items)

JObject(keys, items) == JSONValue("object", <<>>, keys, items)

\* value[key] for a value that is neither null nor undefined
get(value, key) ==
    IF value.type = "object" /\ \E i \in 1..Len(value.keys) : value.keys[i] = key
    THEN value.items[CHOOSE i \in 1..Len(value.keys) : value.keys[i] = key]
    ELSE Undefined

\* !value is false
truthy(value) ==
    CASE value.type \in {"undefined", "null"} -> FALSE
      [] value.type = "boolean" -> value.str = <<"t", "r", "u", "e">>
      [] value.type = "number" -> value.str # <<"0">>
      [] value.type = "string" -> value.str # <<>>
      [] OTHER -> TRUE

\* Array.isArray(value)
isArray(value) == value.type = "array"

\* QuoteJSONString: the escape of every code unit that is not written as
\* it is (the quote, the backslash and U+0000..U+001F)
JSONEscapes ==
    "\"" :> <<"\\", "\"">>
      @@ "\\" :> <<"\\", "\\">>
      @@ "U+0000" :> <<"\\", "u", "0", "0", "0", "0">>
      @@ "U+0001" :> <<"\\", "u", "0", "0", "0", "1">>
      @@ "U+0002" :> <<"\\", "u", "0", "0", "0", "2">>
      @@ "U+0003" :> <<"\\", "u", "0", "0", "0", "3">>
      @@ "U+0004" :> <<"\\", "u", "0", "0", "0", "4">>
      @@ "U+0005" :> <<"\\", "u", "0", "0", "0", "5">>
      @@ "U+0006" :> <<"\\", "u", "0", "0", "0", "6">>
      @@ "U+0007" :> <<"\\", "u", "0", "0", "0", "7">>
      @@ "U+0008" :> <<"\\", "b">>
      @@ "\t" :> <<"\\", "t">>
      @@ "\n" :> <<"\\", "n">>
      @@ "U+000B" :> <<"\\", "u", "0", "0", "0", "b">>
      @@ "\f" :> <<"\\", "f">>
      @@ "\r" :> <<"\\", "r">>
      @@ "U+000E" :> <<"\\", "u", "0", "0", "0", "e">>
      @@ "U+000F" :> <<"\\", "u", "0", "0", "0", "f">>
      @@ "U+0010" :> <<"\\", "u", "0", "0", "1", "0">>
      @@ "U+0011" :> <<"\\", "u", "0", "0", "1", "1">>
      @@ "U+0012" :> <<"\\", "u", "0", "0", "1", "2">>
      @@ "U+0013" :> <<"\\", "u", "0", "0", "1", "3">>
      @@ "U+0014" :> <<"\\", "u", "0", "0", "1", "4">>
      @@ "U+0015" :> <<"\\", "u", "0", "0", "1", "5">>
      @@ "U+0016" :> <<"\\", "u", "0", "0", "1", "6">>
      @@ "U+0017" :> <<"\\", "u", "0", "0", "1", "7">>
      @@ "U+0018" :> <<"\\", "u", "0", "0", "1", "8">>
      @@ "U+0019" :> <<"\\", "u", "0", "0", "1", "9">>
      @@ "U+001A" :> <<"\\", "u", "0", "0", "1", "a">>
      @@ "U+001B" :> <<"\\", "u", "0", "0", "1", "b">>
      @@ "U+001C" :> <<"\\", "u", "0", "0", "1", "c">>
      @@ "U+001D" :> <<"\\", "u", "0", "0", "1", "d">>
      @@ "U+001E" :> <<"\\", "u", "0", "0", "1", "e">>
      @@ "U+001F" :> <<"\\", "u", "0", "0", "1", "f">>

\* the escaping JSON.stringify applies to a string value or a property name
escapeJSON(s) ==
    join([i \in 1..Len(s) |->
             IF s[i] \in DOMAIN JSONEscapes THEN JSONEscapes[s[i]]
             ELSE <<s[i]>>], <<>>)

quoteJSON(s) == <<"\"">> \o escapeJSON(s) \o <<"\"">>

\* JSON.stringify(value)
RECURSIVE JSONStringify(_)
JSONStringify(value) ==
    CASE value.type = "null" -> <<"n", "u", "l", "l">>
      [] value.type \in {"boolean", "number"} -> value.str
      [] value.type = "string" -> quoteJSON(value.str)
      [] value.type = "array" ->
            <<"[">> \o join([i \in 1..Len(value.items) |->
                                JSONStringify(value.items[i])], <<",">>)
                    \o <<"]">>
      [] value.type = "object" ->
            <<"{">> \o join([i \in 1..Len(value.keys) |->
                                quoteJSON(value.keys[i]) \o <<":">>
                                    \o JSONStringify(value.items[i])], <<",">>)
                    \o <<"}">>

\* a thread text with characters JSON.stringify escapes
T_Escaped ==
    <<"S", "e", "e", "\n", "\t", "\"", "t", "h", "i", "s", "\"", " ",
      "C", ":", "\\", "t", "m", "p">>

Thread(t) == JObject(<<K_Text>>, <<JString(t)>>)

\* a thread with a field the handlers do not read
ThreadBy(t, author) ==
    JObject(<<K_Text, K_Author>>, <<JString(t), JString(author)>>)

SummaryField == JObject(<<K_KeyPoints>>, <<JArray(<<>>)>>)

\* a summary with a key point and a field the handlers do not read
SummaryWith(keyPoint, sentiment) ==
    JObject(<<K_KeyPoints, K_Sentiment>>,
            <<JArray(<<JString(keyPoint)>>), JString(sentiment)>>)

\* a summary whose keyPoints is not an array
SummaryWithoutList == JObject(<<K_KeyPoints>>, <<JString(K_Text)>>)

\* the bodies sent: JSON objects whose threadContent.text, when it is
\* there, is a string
BodiesFor(route) ==
    IF route = "summarize"
    THEN {JObject(<<>>, <<>>),
          JObject(<<K_ThreadContent>>, <<Thread(<<>>)>>),
          JObject(<<K_ThreadContent>>, <<ThreadBy(T_Escaped, K_Author)>>)}
    ELSE {JObject(<<K_Summary>>, <<SummaryField>>),
          JObject(<<K_ThreadContent, K_Summary>>, <<Thread(T_Thanks), JNull>>),
          JObject(<<K_ThreadContent, K_Summary>>,
                  <<Thread(T_Thanks), SummaryWithoutList>>),
          JObject(<<K_Summary, K_ThreadContent>>,
                  <<SummaryWith(K_Text, K_Sentiment), Thread(T_Thanks)>>)}

\* the reply requests of the load run: one invalid, one valid
LoadBodies ==
    {JObject(<<K_ThreadContent, K_Summary>>, <<Thread(T_Thanks), JNull>>),
     JObject(<<K_ThreadContent, K_Summary>>, <<Thread(T_Thanks), SummaryField>>)}

originalUrl(route) == IF route = "summarize" THEN U_Summarize ELSE U_Reply

\* req.body.threadContent.text of a body that passed the validation
threadText(body) == get(get(body, K_ThreadContent), K_Text).str

\* const cacheKey = req.originalUrl + JSON.stringify(req.body)
cacheKey(route, body) == originalUrl(route) \o JSONStringify(body)

\* the bodies the handlers and middlewares hand to res.json
HandlerBody(success, error, message, result, retryAfter) ==
    [success |-> success, error |-> error, message |-> message,
     result |-> result, retryAfter |-> retryAfter]

BadRequest(message) == HandlerBody(FALSE, "Bad Request", message, <<>>, 0)

RateLimitExceeded ==
    HandlerBody(FALSE, "Rate limit exceeded", Msg_TooManyRequests, <<>>, 60)

InternalServerError(route, e) ==
    HandlerBody(FALSE, "Internal Server Error",
                IF e.hasMessage /\ e.message # <<>> THEN e.message
                ELSE IF route = "summarize" THEN Msg_FailedToSummarize
                ELSE Msg_FailedToReply,
                <<>>, 0)

Success(result) == HandlerBody(TRUE, "", <<>>, result, 0)

CacheCleared == HandlerBody(TRUE, "", Msg_CacheCleared, <<>>, 0)

\* the validation of the two handlers: the message of the 400, <<>> when
\* the body passes
validationError(route, body) ==
    LET threadContent == get(body, K_ThreadContent)
        summary == get(body, K_Summary)
    IN  IF route = "summarize"
        THEN IF ~truthy(threadContent) \/ ~truthy(get(threadContent, K_Text))
             THEN Msg_ThreadContentRequired ELSE <<>>
        ELSE IF ~truthy(threadContent) \/ ~truthy(summary)
             THEN Msg_ThreadAndSummaryRequired
        ELSE IF ~truthy(get(threadContent, K_Text)) THEN Msg_ThreadTextRequired
        ELSE IF ~isArray(get(summary, K_KeyPoints)) THEN Msg_KeyPointsArray
        ELSE <<>>

\* variant of cacheHas in which an entry never expires
cacheHas_NoExpiry(key, now) == key \in DOMAIN cache

\* cache.get(cacheKey): an entry is returned until Date.now() passes its t
cacheHas(key, now) == key \in DOMAIN cache /\ ~(cache[key].t < now)

\* cache.set(cacheKey, body) at time now; at is when the entry was stored
cacheSet(key, body, now) ==
    [k \in DOMAIN cache \cup {key} |->
        IF k = key THEN [v |-> body, t |-> now + stdTTL, at |-> now]
        ELSE cache[k]]

NoRecord == [value |-> 0, expiresAt |-> 0]

points(route) == IF route = "summarize" THEN summaryPoints ELSE replyPoints

\* variant of consume that takes no point
consume_Free(rec, now) == rec

\* rateLimiter.consume(clientId): the record after the call; the call is
\* rejected when value exceeds the points of the limiter
consume(rec, now) ==
    IF now < rec.expiresAt THEN [rec EXCEPT !.value = @ + 1]
    ELSE [value |-> 1, expiresAt |-> now + limiterDuration]

\* a server that has just started; cap is the number of requests the run
\* sends, on each route and in total, the steps its clock takes and the
\* number of requests that wait at a time
HttpStart(cap) ==
    /\ FnIdle
    /\ RtIdle
    /\ CwtIdle
    /\ LmIdle
    /\ ConcIdle
    /\ svcVariant = "timeout"
    /\ svcOp = "none"
    /\ svcThread = <<>>
    /\ svcHF = FALSE
    /\ svcPc = "idle"
    /\ svcHFIndex = 0
    /\ svcCalls = <<>>
    /\ svcLog = <<>>
    /\ svcLate = {}
    /\ svcOutcome = NoOutcome
    /\ httpNow = 0
    /\ httpClock = 0
    /\ httpCap = cap
    /\ httpSeq = [r \in Routes |-> 0]
    /\ cache = <<>>
    /\ limiters = [r \in Routes |-> [c \in Clients |-> NoRecord]]
    /\ httpInFlight = <<>>
    /\ httpLast = NoResponse

\* how many requests have arrived on the two routes
Arrived == httpSeq["summarize"] + httpSeq["reply"]

InitHttp ==
    HttpStart([summarize |-> MaxRequests, reply |-> MaxRequests,
               total |-> MaxRequests, clock |-> ClockSteps,
               inFlight |-> MaxInFlight])

\* fromCache is the field of that name in the body sent: "true" in
\* { ...cachedResponse, fromCache: true }, "false" in what the overridden
\* res.json sends, "absent" in a body sent by the res.json of express
Response(route, client, status, body, fromCache, consumed, handled, called) ==
    [url |-> originalUrl(route), client |-> client,
     at |-> httpNow, status |-> status, body |-> body,
     cacheMiddleware |-> TRUE, fromCache |-> fromCache,
     key |-> <<>>, consumed |-> consumed, handled |-> handled,
     called |-> called, flushed |-> {}]

\* variant of cacheMiddleware that stores a body only when the status is 200
cacheAfterSend_SuccessOnly(key, status, body) ==
    IF status = 200 THEN cacheSet(key, body, httpNow) ELSE cache

\* variant of cacheAfterSend that keeps the entry a key already has
cacheAfterSend_FirstWins(key, status, body) ==
    IF key \in DOMAIN cache THEN cache ELSE cacheSet(key, body, httpNow)

\* the overridden res.json of cacheMiddleware: whatever is sent is stored
cacheAfterSend(key, status, body) == cacheSet(key, body, httpNow)

\* a request past cacheMiddleware: awaiting is the await it stands at,
\* consumedPoints what rateLimiter.consume counted for it
Request(route, client, body, key, awaiting, consumedPoints) ==
    [route |-> route, client |-> client, body |-> body, key |-> key,
     awaiting |-> awaiting, consumedPoints |-> consumedPoints]

\* cacheMiddleware and rateLimitMiddleware up to its await, for one
\* arriving request
Post(route, client, body) ==
    LET key == cacheKey(route, body)
        rec == consume(limiters[route][client], httpNow)
    IN  /\ httpSeq[route] < httpCap[route]
        /\ Arrived < httpCap.total
        /\ httpSeq' = [httpSeq EXCEPT ![route] = @ + 1]
        /\ IF cacheHas(key, httpNow)
           THEN /\ httpLast' = [Response(route, client, 200, cache[key].v,
                                         "true", FALSE, FALSE, FALSE)
                                   EXCEPT !.key = key]
                /\ UNCHANGED <<cache, limiters, httpInFlight>>
           ELSE /\ Len(httpInFlight) < httpCap.inFlight
                /\ limiters' = [limiters EXCEPT ![route][client] = rec]
                /\ httpInFlight' = Append(httpInFlight,
                       Request(route, client, body, key, "consume", rec.value))
                /\ UNCHANGED <<cache, httpLast>>

\* router.post('/summarize', cacheMiddleware, rateLimitMiddleware(...), ...)
PostSummarize ==
    /\ \E client \in Clients, body \in BodiesFor("summarize") :
          Post("summarize", client, body)
    /\ UNCHANGED <<httpNow, httpClock, httpCap, svcVars, otherThanHttp>>

\* router.post('/reply', cacheMiddleware, rateLimitMiddleware(...), ...)
PostReplyOf(bodies) ==
    /\ \E client \in Clients, body \in bodies : Post("reply", client, body)
    /\ UNCHANGED <<httpNow, httpClock, httpCap, svcVars, otherThanHttp>>

PostReply == PostReplyOf(BodiesFor("reply"))

\* the in-flight requests without the i-th
withoutRequest(i) ==
    SubSeq(httpInFlight, 1, i - 1) \o SubSeq(httpInFlight, i + 1, Len(httpInFlight))

\* rateLimitMiddleware after await rateLimiter.consume(clientId), and the
\* handler up to its await: the promise is rejected when the points of the
\* limiter are exceeded
ConsumeSettles ==
    /\ \E i \in 1..Len(httpInFlight) :
          LET r == httpInFlight[i]
              invalid == validationError(r.route, r.body)
          IN  /\ r.awaiting = "consume"
              /\ IF r.consumedPoints > points(r.route)
                 THEN /\ cache' = cacheAfterSend(r.key, 429, RateLimitExceeded)
                      /\ httpLast' = [Response(r.route, r.client, 429,
                                               RateLimitExceeded, "false",
                                               TRUE, FALSE, FALSE)
                                         EXCEPT !.key = r.key]
                      /\ httpInFlight' = withoutRequest(i)
                 ELSE IF invalid # <<>>
                 THEN /\ cache' = cacheAfterSend(r.key, 400, BadRequest(invalid))
                      /\ httpLast' = [Response(r.route, r.client, 400,
                                               BadRequest(invalid), "false",
                                               TRUE, TRUE, FALSE)
                                         EXCEPT !.key = r.key]
                      /\ httpInFlight' = withoutRequest(i)
                 ELSE /\ httpInFlight' =
                            [httpInFlight EXCEPT ![i].awaiting = "service"]
                      /\ UNCHANGED <<cache, httpLast>>
    /\ UNCHANGED <<httpNow, httpClock, httpCap, httpSeq, limiters, svcVars,
                   otherThanHttp>>

\* the thread texts of the requests
HttpThreads ==
    {threadText(b) : b \in BodiesFor("summarize") \cup BodiesFor("reply")
                              \cup LoadBodies}

\* every way geminiService.summarizeThread / generateReply ends, by route,
\* Hugging Face configuration and thread text
HttpOutcomes ==
    [route \in Routes |-> [hf \in BOOLEAN |-> [thread \in HttpThreads |->
        ServiceOutcomes(route, thread, hf, HttpGeminiResponses,
                        HttpProviderErrors, HttpHFResponses, HttpRandoms)]]]

\* the handler after await geminiService.summarizeThread / generateReply
ServiceSettles ==
    /\ \E i \in 1..Len(httpInFlight) :
          LET r == httpInFlight[i]
          IN  /\ r.awaiting = "service"
              /\ \E o \in HttpOutcomes[r.route][svcHF][threadText(r.body)] :
                    LET status == IF o.status = "returned" THEN 200 ELSE 500
                        body == IF o.status = "returned" THEN Success(o.value)
                                ELSE InternalServerError(r.route, o.error)
                    IN  /\ cache' = cacheAfterSend(r.key, status, body)
                        /\ httpLast' = [Response(r.route, r.client, status,
                                                 body, "false", TRUE, TRUE,
                                                 TRUE)
                                           EXCEPT !.key = r.key]
                        /\ httpInFlight' = withoutRequest(i)
    /\ UNCHANGED <<httpNow, httpClock, httpCap, httpSeq, limiters, svcVars,
                   otherThanHttp>>

\* variant of flushAll that leaves the entries in place
flushAll_Noop(entries) == entries

\* cache.flushAll()
flushAll(entries) == <<>>

\* router.post('/clear-cache', ...)
PostClearCache ==
    /\ cache' = flushAll(cache)
    /\ httpLast' = [NoResponse EXCEPT !.url = U_ClearCache, !.at = httpNow,
                                      !.status = 200, !.body = CacheCleared,
                                      !.handled = TRUE,
                                      !.flushed = DOMAIN cache]
    /\ UNCHANGED <<httpNow, httpClock, httpCap, httpSeq, limiters, httpInFlight,
                   svcVars, otherThanHttp>>

TimePasses ==
    /\ httpClock < MaxClockSteps
    /\ \E d \in httpCap.clock :
          /\ httpInFlight # <<>> => d <= ServiceBudget
          /\ httpNow' = httpNow + d
    /\ httpClock' = httpClock + 1
    /\ UNCHANGED <<httpCap, httpSeq, cache, limiters, httpInFlight, httpLast,
                   svcVars, otherThanHttp>>

NextHttp ==
    \/ PostSummarize
    \/ PostReply
    \/ ConsumeSettles
    \/ ServiceSettles
    \/ PostClearCache
    \/ TimePasses

SpecHttp == InitHttp /\ [][NextHttp]_vars

\* the reply route under load: enough requests to exhaust its limiter
InitReplyLoad ==
    HttpStart([summarize |-> 0, reply |-> replyPoints + 2,
               total |-> replyPoints + 2, clock |-> LoadClockSteps,
               inFlight |-> LoadInFlight])

PostReplyLoad == PostReplyOf(LoadBodies)

NextReplyLoad ==
    \/ PostReplyLoad
    \/ ConsumeSettles
    \/ ServiceSettles
    \/ PostClearCache
    \/ TimePasses

SpecReplyLoad == InitReplyLoad /\ [][NextReplyLoad]_vars

(***************************************************************************)
(* SpecLimit: the rate limiting middleware of the router (router.use)      *)
(***************************************************************************)
MaxWindowSteps == 3

\* RATE_LIMIT_COUNT of the two routers
RateLimitCounts == {100, 10}

\* 60 * 60 * 1000
RATE_LIMIT_WINDOW == 3600000

\* ms the clock may jump in one step
WindowSteps == {1, RATE_LIMIT_WINDOW}

\* req.headers['x-client-id'] || 'anonymous'
ClientIds == {"anonymous", "client-1"}

\* the clients of a run: the router with the quota of 100 is exercised by
\* requests without an x-client-id header, the other by both clients
ClientsOf(quota) == IF quota = 100 THEN {"anonymous"} ELSE ClientIds

\* { count: 0, resetTime: now + RATE_LIMIT_WINDOW }
newWindow(now) == [count |-> 0, resetTime |-> now + RATE_LIMIT_WINDOW]

\* variant of windowElapsed in which the reset time itself is past the window
windowElapsed_AtReset(now, entry) == now >= entry.resetTime

\* now > rateLimit[clientId].resetTime
windowElapsed(now, entry) == now > entry.resetTime

\* the entry of the client after the two ifs that create and renew it
currentWindow(clientId, now) ==
    LET created == IF clientId \in DOMAIN rateLimit THEN rateLimit[clientId]
                   ELSE newWindow(now)
    IN  IF windowElapsed(now, created) THEN newWindow(now) ELSE created

\* variant of overQuota that lets one request more through
overQuota_OffByOne(entry) == entry.count > lmQuota

\* rateLimit[clientId].count >= RATE_LIMIT_COUNT
overQuota(entry) == entry.count >= lmQuota

\* variant of setEntry that writes the entry to every client
setEntry_Shared(clientId, entry) ==
    [c \in DOMAIN rateLimit \cup {clientId} |-> entry]

\* rateLimit[clientId] = entry
setEntry(clientId, entry) ==
    [c \in DOMAIN rateLimit \cup {clientId} |->
        IF c = clientId THEN entry ELSE rateLimit[c]]

InitLimit ==
    /\ FnIdle
    /\ RtIdle
    /\ SvcIdle
    /\ HttpIdle
    /\ CwtIdle
    /\ ConcIdle
    /\ lmQuota \in RateLimitCounts
    /\ lmNow = 0
    /\ lmClock = 0
    /\ lmSeq = 0
    /\ rateLimit = <<>>
    /\ lmInFlight = <<>>
    /\ lmLast = NoArrival

\* router.use((req, res, next) => ...): one request runs the middleware to
\* its end; next() hands it to its route handler
Arrives(clientId) ==
    LET entry == currentWindow(clientId, lmNow)
    IN  /\ lmSeq < lmQuota + 2
        /\ lmSeq' = lmSeq + 1
        /\ IF overQuota(entry)
           THEN /\ rateLimit' = setEntry(clientId, entry)
                /\ lmLast' = [client |-> clientId, at |-> lmNow, rejected |-> TRUE]
                /\ UNCHANGED lmInFlight
           ELSE /\ Len(lmInFlight) < MaxInFlight
                /\ rateLimit' = setEntry(clientId, [entry EXCEPT !.count = @ + 1])
                /\ lmLast' = [client |-> clientId, at |-> lmNow, rejected |-> FALSE]
                /\ lmInFlight' = Append(lmInFlight, clientId)
        /\ UNCHANGED <<lmQuota, lmNow, lmClock, otherThanLm>>

Arrival == \E clientId \in ClientsOf(lmQuota) : Arrives(clientId)

\* a route handler sends its response: the limiter is not involved
HandlerResponds ==
    /\ \E i \in 1..Len(lmInFlight) :
          lmInFlight' = SubSeq(lmInFlight, 1, i - 1)
                          \o SubSeq(lmInFlight, i + 1, Len(lmInFlight))
    /\ UNCHANGED <<lmQuota, lmNow, lmClock, lmSeq, rateLimit, lmLast, otherThanLm>>

WindowTimePasses ==
    /\ lmClock < MaxWindowSteps
    /\ \E d \in WindowSteps : lmNow' = lmNow + d
    /\ lmClock' = lmClock + 1
    /\ UNCHANGED <<lmQuota, lmSeq, rateLimit, lmInFlight, lmLast, otherThanLm>>

NextLimit ==
    \/ Arrival
    \/ HandlerResponds
    \/ WindowTimePasses

SpecLimit == InitLimit /\ [][NextLimit]_vars

(***************************************************************************)
(* SpecReply: generateIntelligentReply of gemini.js and of part_003        *)
(***************************************************************************)
positiveKeywords ==
    {K_thanks, K_great, PK_amazing, PK_awesome, PK_love, PK_excellent,
     PK_fantastic}

questionKeywords ==
    {QK_mark, QK_how, QK_what, QK_why, QK_when, QK_where, QK_canYou}

classifiedPositiveReplies ==
    <<RC_Positive1, RC_Positive2, RC_Positive3, RC_Positive4, RC_Positive5>>

questionReplies == <<RC_Question1, RC_Question2, RC_Question3, RC_Question4>>

classifiedNeutralReplies ==
    <<RC_Neutral1, RC_Neutral2, RC_Neutral3, RC_Neutral4, RC_Neutral5>>

classifiedDefaultReplies ==
    <<RC_Default1, RC_Default2, RC_Default3, RC_Default4, RC_Default5>>

\* generateIntelligentReply of part_003:1064-1129, with a question class
generateIntelligentReplyClassified(text, random) ==
    LET kept == SelectSeq(split(text, "\n"), LAMBDA line : Len(trim(line)) > 20)
        firstLine == trim(kept[1])
        hasPositiveContext ==
            \E keyword \in positiveKeywords : includes(toLowerCase(firstLine), keyword)
        hasQuestion ==
            \E keyword \in questionKeywords : includes(toLowerCase(firstLine), keyword)
    IN  IF Len(trim(text)) = 0 THEN R_ThanksForSharingThis
        ELSE IF Len(kept) > 0
        THEN IF hasPositiveContext
             THEN randomElement(classifiedPositiveReplies, random)
             ELSE IF hasQuestion THEN randomElement(questionReplies, random)
             ELSE randomElement(classifiedNeutralReplies, random)
        ELSE randomElement(classifiedDefaultReplies, random)

\* threadContent.text of the calls
ReplyLines ==
    {T_Thanks, T_Question, T_Neutral, T_Interesting, T_Love, T_Ok,
     T_IndentedQuestion}

ReplyTexts ==
    {<<>>, T_Spaces}
        \cup ReplyLines
        \cup {join(<<T_Ok, l>>, NL) : l \in ReplyLines}

\* the string a reply heuristic returned
ReplyResult(reply) == [reply |-> reply]

InitReply ==
    /\ fnInput \in ReplyTexts
    /\ fnPath = "pending"
    /\ fnResult = NoResult
    /\ RtIdle
    /\ SvcIdle
    /\ HttpIdle
    /\ CwtIdle
    /\ LmIdle
    /\ ConcIdle

GenerateIntelligentReply ==
    /\ fnPath = "pending"
    /\ \E random \in Randoms :
          fnResult' = ReplyResult(generateIntelligentReply(fnInput, random))
    /\ fnPath' = "generateIntelligentReply"
    /\ UNCHANGED <<fnInput, otherThanFn>>

GenerateIntelligentReplyClassified ==
    /\ fnPath = "pending"
    /\ \E random \in Randoms :
          fnResult' = ReplyResult(generateIntelligentReplyClassified(fnInput, random))
    /\ fnPath' = "generateIntelligentReplyClassified"
    /\ UNCHANGED <<fnInput, otherThanFn>>

NextReply ==
    \/ GenerateIntelligentReply
    \/ GenerateIntelligentReplyClassified

SpecReply == InitReply /\ [][NextReply]_vars

(***************************************************************************)
(* SpecConc: two calls of summarizeThread / generateReply (class at        *)
(* gemini.js:604) in flight on the one exported GeminiService instance     *)
(***************************************************************************)
Invocations == {1, 2}

\* a provider call whose timer fires before it settles
TimedOut == [status |-> "timeout", value |-> <<>>, error |-> NoError]

\* what the providers do for one call: how the Gemini call and the two
\* Hugging Face calls end
Script(gemini, hfAuto, hfGpt2) ==
    [gemini |-> gemini, hfAuto |-> hfAuto, hfGpt2 |-> hfGpt2]

\* Gemini answers; Gemini times out; Gemini is out of quota and the timer
\* around the Hugging Face calls fires during the first, or the first, the
\* second or no Hugging Face call answers
Scripts ==
    {Script(Returned(L_Short), TimedOut, TimedOut),
     Script(TimedOut, TimedOut, TimedOut),
     Script(Thrown(Err(M_Quota429)), TimedOut, TimedOut),
     Script(Thrown(Err(M_Quota429)), Returned(B_Sentence), TimedOut),
     Script(Thrown(Err(M_Quota429)), Thrown(Err(M_FetchFailed)),
            Returned(L_Short)),
     Script(Thrown(Err(M_Quota429)), Thrown(Err(M_FetchFailed)),
            Thrown(Err(M_FetchFailed)))}

ConcThreads == {T_Thanks, T_Question}

\* the values the generator can return, in twentieths
ConcRandoms == {0, 19}

\* Math.random(): the next value of the generator, and the generator
\* after the draw
MathRandom(generator) ==
    [value |-> generator.values[generator.drawn + 1],
     generator |-> [generator EXCEPT !.drawn = @ + 1]]

\* the locals of a call that has not started
NewInvocation(op, thread, script) ==
    [op |-> op, thread |-> thread, script |-> script, pc |-> "start",
     calls |-> <<>>, outcome |-> NoOutcome, overlapped |-> FALSE]

\* generateIntelligentSummary / generateIntelligentReply for this call:
\* what it returns, and the generator it leaves. Only a reply to a text
\* that is not blank draws from Math.random (gemini.js:925, 933, 946)
localOutcome(inv, generator) ==
    IF inv.op = "summarize"
    THEN [outcome |-> Returned(generateIntelligentSummary(inv.thread)),
          generator |-> generator]
    ELSE IF Len(trim(inv.thread)) = 0
    THEN [outcome |-> Returned(R_ThanksForSharingThis), generator |-> generator]
    ELSE LET draw == MathRandom(generator)
         IN  [outcome |->
                  Returned(generateIntelligentReply(inv.thread, draw.value)),
              generator |-> draw.generator]

\* the call ends with outcome
finish(inv, outcome, generator) ==
    [inv |-> [inv EXCEPT !.pc = "done", !.outcome = outcome],
     generator |-> generator]

\* the call ends with what generateIntelligentSummary /
\* generateIntelligentReply returned
finishLocal(local, inv) == finish(inv, local.outcome, local.generator)

\* the call invokes the provider spec and awaits it
await(inv, pc, spec, generator) ==
    [inv |-> [inv EXCEPT !.pc = pc, !.calls = Append(@, spec)],
     generator |-> generator]

\* the next step of one call, from an await (or its start) to the next await
\* (or its end): the locals of the call and the generator after the step.
\* It reads its own locals, this.hf and the generator
advanceOne(inv, hf, generator) ==
    IF inv.pc = "start" THEN await(inv, "gemini", "gemini", generator)
    ELSE IF inv.pc = "gemini"
    THEN IF inv.script.gemini.status = "returned"
         THEN finish(inv, GeminiSuccess(inv.op, inv.script.gemini.value),
                     generator)
         ELSE LET e == IF inv.script.gemini.status = "timeout"
                       THEN TimeoutError(inv.op, "gemini")
                       ELSE inv.script.gemini.error
                  d == catchGemini(e, hf)
              IN  IF d = "throw"
                  THEN finish(inv, Thrown(messageTypeError(e)), generator)
                  ELSE IF d = "huggingface"
                  THEN await(inv, "hf_auto", "hf:auto", generator)
                  ELSE finishLocal(localOutcome(inv, generator), inv)
    ELSE IF inv.pc = "hf_auto"
    THEN IF inv.script.hfAuto.status = "returned"
         THEN finish(inv, HFSuccess(inv.op, inv.script.hfAuto.value), generator)
         ELSE IF inv.script.hfAuto.status = "timeout"
         THEN finishLocal(localOutcome(inv, generator), inv)
         ELSE await(inv, "hf_gpt2", "hf:gpt2", generator)
    ELSE IF inv.pc = "hf_gpt2"
    THEN IF inv.script.hfGpt2.status = "returned"
         THEN finish(inv, HFSuccess(inv.op, inv.script.hfGpt2.value), generator)
         ELSE finishLocal(localOutcome(inv, generator), inv)
    ELSE [inv |-> inv, generator |-> generator]

\* the process state st after a step of call i that ends in next
afterStep(st, i, next) ==
    [invocations |-> [st.invocations EXCEPT ![i] = next.inv],
     hf |-> st.hf,
     generator |-> next.generator]

\* a step of call i in the process state st: the locals of the calls,
\* this.hf of the instance they run on and the generator of the process.
\* The step writes the locals of call i and the generator
advance(i, st) ==
    afterStep(st, i, advanceOne(st.invocations[i], st.hf, st.generator))

InFlight(inv) == inv.pc \notin {"start", "done"}

InitConc ==
    /\ FnIdle
    /\ RtIdle
    /\ SvcIdle
    /\ HttpIdle
    /\ CwtIdle
    /\ LmIdle
    /\ instHF \in BOOLEAN
    /\ mathRandom \in {Generator(values) : values \in [Invocations -> ConcRandoms]}
    /\ invocations \in
          [Invocations -> {NewInvocation(op, thread, script) :
                              op \in {"summarize", "reply"},
                              thread \in ConcThreads, script \in Scripts}]

\* the state of the process: the calls, the instance, the generator
ProcessState ==
    [invocations |-> invocations, hf |-> instHF, generator |-> mathRandom]

\* one call runs up to its next await, or from an await to its end
InvocationSteps(i) ==
    /\ invocations[i].pc # "done"
    /\ \E st \in {advance(i, ProcessState)} :
          /\ invocations' =
                 [st.invocations EXCEPT
                     ![i].overlapped =
                         @ \/ \E j \in Invocations \ {i} :
                                  InFlight(invocations[j])]
          /\ instHF' = st.hf
          /\ mathRandom' = st.generator
    /\ UNCHANGED otherThanConc

NextConc == \E i \in Invocations : InvocationSteps(i)

SpecConc == InitConc /\ [][NextConc]_vars

(***************************************************************************)
(* Properties                                                              *)
(***************************************************************************)
FnPaths ==
    {"parseSummaryResponse", "generateIntelligentSummary",
     "parseIntelligentHFResponse"}

KeyPointPlaceholders ==
    {P_MainDiscussionPoints, P_NoContentFound, P_MainPointsFromContent,
     P_AIGeneratedSummary}

QuotePlaceholders ==
    {P_KeyStatementFromThread, P_NoQuotesAvailable,
     P_KeyStatementFromDiscussion, P_KeyInsightsFromContent}

\* what the path extracted from fnInput before any placeholder was filled in
Extracted(path, text) ==
    IF path = "parseSummaryResponse" THEN parseExtracted(text)
    ELSE IF path = "generateIntelligentSummary"
    THEN IF Len(trim(text)) = 0 THEN [keyPoints |-> <<>>, quotes |-> <<>>]
         ELSE heuristicExtracted(text)
    ELSE IF Len(trim(text)) = 0 THEN [keyPoints |-> <<>>, quotes |-> <<>>]
         ELSE hfExtracted(text)

\* C6: every SummaryResult, whichever path produced it (structured parse,
\* fallback parse, Hugging Face conversion, local heuristic summary,
\* empty text), has a non-empty keyPoints list and a non-empty quotes list;
\* a list for which nothing was extracted holds one fixed placeholder.
C6_ListsNeverEmpty ==
    fnPath \in FnPaths =>
        LET extracted == Extracted(fnPath, fnInput)
        IN  /\ Len(fnResult.keyPoints) > 0
            /\ Len(fnResult.quotes) > 0
            /\ (extracted.keyPoints = <<>> =>
                   \E p \in KeyPointPlaceholders : fnResult.keyPoints = <<p>>)
            /\ (extracted.quotes = <<>> =>
                   \E p \in QuotePlaceholders : fnResult.quotes = <<p>>)

\* a parse that extracted key points but no quote: the quotes list is the
\* placeholder
C6_Witness ==
    /\ fnPath = "parseSummaryResponse"
    /\ parseExtracted(fnInput).keyPoints # <<>>
    /\ parseExtracted(fnInput).quotes = <<>>
    /\ fnResult.quotes = <<P_KeyStatementFromThread>>

\* the bodies of the numbered lines and of the labeled lines of a
\* well-formed response
WellFormedPoints(text) ==
    LET lines == split(text, "\n")
    IN  [i \in 1..3 |-> SubSeq(lines[i + 1], Len(L_Num1) + 1, Len(lines[i + 1]))]

WellFormedQuotes(text) ==
    LET lines == split(text, "\n")
    IN  [i \in 1..2 |->
            SubSeq(lines[i + 5], Len(L_QuoteLabel1) + 1, Len(lines[i + 5]))]

\* C7: for a response with a "Key Points:" header, exactly 3 numbered
\* lines, a "Quotes:" header and exactly 2 lines labeled "Quote 1:" and
\* "Quote 2:", parseSummaryResponse returns those 3 points and those 2
\* quotes in order, each cut to its length cap.
C7_WellFormedVerbatim ==
    (fnPath = "parseSummaryResponse" /\ fnInput \in WellFormedTexts) =>
        /\ fnResult.keyPoints =
               [i \in 1..3 |-> substring0(WellFormedPoints(fnInput)[i], 100)]
        /\ fnResult.quotes =
               [i \in 1..2 |-> substring0(WellFormedQuotes(fnInput)[i], 80)]

\* the message contains neither '503' nor 'overloaded'
NonTransient(e) ==
    e.hasMessage /\ ~includes(e.message, S_503) /\ ~includes(e.message, S_overloaded)

\* C9: an error of the operation that is not transient, a quota error
\* included, ends retryOperation at once: it is the last error the
\* operation raised, no call and no backoff delay follows it (raised by the
\* first call: exactly one call and no delay), and it is the error thrown.
C9_NonTransientFailsImmediately ==
    \A k \in 1..Len(rtErrors) :
        NonTransient(rtErrors[k]) =>
            /\ k = Len(rtErrors)
            /\ rtCalls = k
            /\ Len(rtWaits) = k - 1
            /\ rtPc = "thrown"
            /\ rtOutcome = Thrown(rtErrors[k])

C10_Safety ==
    /\ rtCalls <= rtMaxRetries
    /\ \A k \in 1..Len(rtWaits) :
          /\ rtWaits[k] = rtDelay * (2 ^ (k - 1))
          /\ rtErrors[k].hasMessage
          /\ includes(rtErrors[k].message, S_503)
                 \/ includes(rtErrors[k].message, S_overloaded)
    /\ Len(rtWaits) = (IF rtPc = "waiting" THEN rtCalls
                       ELSE IF rtPc = "start" THEN 0 ELSE rtCalls - 1)
    /\ rtPc = "returned" =>
          /\ rtOutcome.status = "returned"
          /\ Len(rtErrors) = rtCalls - 1
    /\ (rtPc = "thrown" /\ rtCalls = rtMaxRetries
            /\ rtErrors[rtCalls].hasMessage) =>
          /\ rtOutcome = Thrown(rtErrors[rtMaxRetries])
          /\ Len(rtWaits) = rtMaxRetries - 1

\* C10: retryOperation waits delay * 2^i before attempt i+1 and only after
\* a transient error, calls the operation at most maxRetries times,
\* returns the first successful result, throws the last attempt's error
\* without a further wait, and always terminates.
C10_ExponentialBackoff ==
    /\ []C10_Safety
    /\ <>(rtPc \in {"returned", "thrown"})

\* the provider attempts of the finished call, in order, as rejections
\* (TRUE) and answers (FALSE)
GeminiErrors ==
    IF svcVariant = "retry" THEN rtErrors
    ELSE SelectSeq(svcLog, LAMBDA r : r.spec = "gemini" /\ ~r.ok)

EveryAttemptFailed ==
    /\ svcPc \in {"returned", "thrown"}
    /\ \A i \in 1..Len(svcLog) : ~svcLog[i].ok
    /\ (svcVariant = "retry" => rtPc = "thrown")
    /\ Len(GeminiErrors) > 0

IsSummaryResult(v) ==
    /\ DOMAIN v = {"keyPoints", "quotes", "sentiment", "wordCount", "timeToRead"}
    /\ Len(v.keyPoints) > 0
    /\ Len(v.quotes) > 0

\* C1: when every Gemini and every Hugging Face attempt of a call raised
\* an error, with or without a message text, summarizeThread returns a
\* SummaryResult and generateReply returns a non-empty string; neither
\* throws.
C1_AllFailNeverThrows ==
    EveryAttemptFailed =>
        /\ svcOutcome.status = "returned"
        /\ (svcOp = "summarize" => IsSummaryResult(svcOutcome.value))
        /\ (svcOp = "reply" => Len(svcOutcome.value) > 0)

\* Gemini raised only quota-class errors ('429' or 'quota')
GeminiQuotaOnly ==
    /\ Len(GeminiErrors) > 0
    /\ \A i \in 1..Len(GeminiErrors) :
          LET e == IF svcVariant = "retry" THEN GeminiErrors[i]
                   ELSE GeminiErrors[i].error
          IN  /\ e.hasMessage
              /\ includes(e.message, S_429) \/ includes(e.message, S_quota)
    /\ \A i \in 1..Len(svcLog) : svcLog[i].spec = "gemini" => ~svcLog[i].ok

\* the Hugging Face attempts of the call, in the order they settled
HFAttempts == SelectSeq(svcLog, LAMBDA r : r.spec # "gemini")

\* the Hugging Face calls the service started
HFCalls == SelectSeq(svcCalls, LAMBDA c : c # "gemini")

\* the structured output the class derives from the first model's text
DerivedFromFirstHF(text) ==
    IF svcVariant = "retry" THEN convertHFSummaryToOurFormat(text)
    ELSE parseIntelligentHFResponse(text)

\* C2: when Gemini raises only quota-class errors and the first Hugging
\* Face call succeeds, summarizeThread returns the structured output
\* derived from that call's response, and no later provider call is made.
C2_FallbackOrdering ==
    (/\ svcPc = "returned"
     /\ svcOp = "summarize"
     /\ GeminiQuotaOnly
     /\ Len(HFAttempts) > 0
     /\ HFAttempts[1].ok) =>
        /\ svcOutcome = Returned(DerivedFromFirstHF(HFAttempts[1].value))
        /\ Len(HFCalls) = 1
        /\ Len(HFAttempts) = 1

\* quota error, then the first summarization model answers with three
\* sentences: two become the key points, the third the quote
C2_Witness ==
    /\ svcPc = "returned"
    /\ svcVariant = "retry"
    /\ rtErrors = <<Err(M_Quota429)>>
    /\ svcCalls = <<HFModels[1]>>
    /\ svcLog = <<Settled(HFModels[1], TRUE, B_Sentence, NoError)>>
    /\ svcOutcome.value.keyPoints = <<trim(splitSentences(B_Sentence)[1]),
                                      trim(splitSentences(B_Sentence)[2])>>
    /\ svcOutcome.value.quotes = <<trim(splitSentences(B_Sentence)[3])>>

\* a request arrived in this step
RequestArrives == httpSeq' # httpSeq

\* a request arrived in this step and cacheMiddleware answered it
AnsweredAtArrival == RequestArrives /\ httpInFlight' = httpInFlight

\* a request arrived in this step and went on to the rate limiter
MissesAtArrival == RequestArrives /\ httpInFlight' # httpInFlight

\* the request that went on to the rate limiter in this step
Arrived_Request == httpInFlight'[Len(httpInFlight')]

\* a request that was waiting is answered in this step
Leaves == Len(httpInFlight') < Len(httpInFlight)

\* the request that is answered in this step
Leaving ==
    httpInFlight[CHOOSE i \in 1..Len(httpInFlight) :
                    httpInFlight' = [j \in 1..(Len(httpInFlight) - 1) |->
                                        IF j < i THEN httpInFlight[j]
                                        ELSE httpInFlight[j + 1]]]

\* the points a client has consumed in the window that is current at now
ConsumedPoints(rec, now) == IF now < rec.expiresAt THEN rec.value ELSE 0

\* the route of the response of this step
AnsweredRoute == IF httpLast'.url = U_Summarize THEN "summarize" ELSE "reply"

C3_Step ==
    /\ MissesAtArrival =>
          LET r == Arrived_Request
              rec == limiters[r.route][r.client]
          IN  /\ r.awaiting = "consume"
              /\ r.consumedPoints = ConsumedPoints(rec, httpNow) + 1
              /\ (rec.expiresAt > 0 /\ ~(httpNow < rec.expiresAt)) =>
                    limiters'[r.route][r.client].value = 1
    /\ (Leaves /\ Leaving.awaiting = "consume") =>
          IF Leaving.consumedPoints > points(Leaving.route)
          THEN /\ httpLast'.status = 429
               /\ ~httpLast'.handled
               /\ ~httpLast'.called
          ELSE httpLast'.status # 429
    /\ (~Leaves /\ ~RequestArrives /\ httpInFlight' # httpInFlight) =>
          \A i \in 1..Len(httpInFlight) :
              httpInFlight'[i] # httpInFlight[i] =>
                  httpInFlight[i].consumedPoints <= points(httpInFlight[i].route)
    /\ AnsweredAtArrival =>
          LET rec == limiters[AnsweredRoute][httpLast'.client]
          IN  (rec.expiresAt > 0 /\ ~(httpNow < rec.expiresAt)) =>
                  /\ httpLast'.status # 429
                  /\ httpLast'.body.error # "Rate limit exceeded"

\* C3: the request of a client that is its (N+1)-th or a later one in the
\* current window of the limiter of its route is answered 429 and does not
\* reach the route handler; once the window has elapsed the counter of the
\* client starts again at 1 and the next request of the client is
\* accepted: it is not answered with the rate-limit rejection.
C3_RateLimit == [][C3_Step]_vars

InvalidSummarizeBodies ==
    {b \in BodiesFor("summarize") :
        \/ get(b, K_ThreadContent) = Undefined
        \/ get(get(b, K_ThreadContent), K_Text) = JString(<<>>)}

\* C4: a POST /api/summarize whose threadContent is missing or whose text
\* is empty is answered with status 400, and no provider is invoked for it.
C4_InvalidSummarize400 ==
    (/\ httpLast.url = U_Summarize
     /\ \E b \in InvalidSummarizeBodies : httpLast.key = cacheKey("summarize", b)
     /\ ~(httpLast.consumed /\ httpLast.status = 429)) =>
        /\ httpLast.status = 400
        /\ ~httpLast.called

ValidBodies(route) ==
    {b \in BodiesFor(route) :
        /\ get(get(b, K_ThreadContent), K_Text).type = "string"
        /\ get(get(b, K_ThreadContent), K_Text).str # <<>>
        /\ route = "reply" => isArray(get(get(b, K_Summary), K_KeyPoints))}

\* C5: a /summarize or /reply request that passes validation and is not
\* rejected by the rate limiter is answered with status 200 and
\* success: true, whatever the providers did.
C5_ProviderFailuresAbsorbed ==
    (/\ httpLast.cacheMiddleware
     /\ \E route \in Routes : \E b \in ValidBodies(route) :
           httpLast.url = originalUrl(route) /\ httpLast.key = cacheKey(route, b)
     /\ httpLast.status # 429) =>
        /\ httpLast.status = 200
        /\ httpLast.body.success

\* the cache key of the request that arrived in this step
ArrivedKey ==
    IF httpInFlight' # httpInFlight
    THEN httpInFlight'[Len(httpInFlight')].key
    ELSE httpLast'.key

C8_Step ==
    /\ RequestArrives =>
          LET k == ArrivedKey
              answered == k \in DOMAIN cache
              age == httpNow - cache[k].at
          IN  /\ (answered /\ age < stdTTL) =>
                    /\ httpInFlight' = httpInFlight
                    /\ httpLast'.fromCache = "true"
                    /\ httpLast'.status = 200
                    /\ httpLast'.body = cache[k].v
                    /\ ~httpLast'.handled
                    /\ ~httpLast'.called
                    /\ cache' = cache
                    /\ limiters' = limiters
              /\ (~answered \/ age > stdTTL) => MissesAtArrival
    /\ Leaves => httpLast'.fromCache = "false"

\* C8: a request whose route and body equal those of a request whose
\* answer was stored less than 1800 s ago gets that response body with
\* fromCache: true, and neither the limiter, the handler nor a provider
\* runs for it; a response sent after a miss carries fromCache: false;
\* more than 1800 s after the answer the request is a miss again.
C8_ResponseCache == [][C8_Step]_vars

\* a successful body served from the cache some time after a miss stored it
C8_Witness ==
    /\ httpLast.fromCache = "true"
    /\ httpLast.status = 200
    /\ httpLast.body.success
    /\ httpLast.key \in DOMAIN cache
    /\ httpLast.body = cache[httpLast.key].v
    /\ httpLast.at > cache[httpLast.key].at

\* the promise callWithTimeout returned never changes once it is settled
C11_SettlesOnce ==
    (cwtPromise \notin {NoOutcome, Pending}) => cwtPromise' = cwtPromise

\* a cleared timer stays cleared: its callback never runs
C11_ClearedNeverFires == cwtTimer = "cleared" => cwtTimer' = "cleared"

C11_Outcome ==
    /\ cwtTimer = "fired" =>
          cwtPromise = Thrown(Err(timeoutMessage(cwtTimeoutMs)))
    /\ cwtTimer = "cleared" =>
          cwtOperation # Pending /\ cwtPromise = cwtOperation
    /\ (cwtPc = "called" /\ cwtOperation # Pending) => cwtTimer # "armed"

\* C11: callWithTimeout settles exactly once. When the timer fires before
\* the operation settles, the call is rejected with the timeout error and
\* the operation's later result or error does not change it; when the
\* operation settles first, its result or error is the outcome and the
\* timer is cleared and never fires.
C11_TimeoutRace ==
    /\ []C11_Outcome
    /\ [][C11_SettlesOnce /\ C11_ClearedNeverFires]_vars

\* the timer fired, then the operation answered: the answer was handed to
\* resolve and the outcome is still the timeout error
C11_Witness ==
    /\ cwtTimer = "fired"
    /\ cwtOperation.status = "returned"
    /\ Len(cwtDelivered) = 2
    /\ cwtDelivered[2] = cwtOperation
    /\ cwtPromise = Thrown(Err(M_Timeout20000))

\* the error the primary provider call ended with
LastGeminiError ==
    IF svcVariant = "retry" THEN rtOutcome.error
    ELSE GeminiErrors[Len(GeminiErrors)].error

\* the primary call failed for good with a timeout, an unclassified error
\* or a transient error that outlived its retries: not a quota-class error
GeminiFailedNonQuota ==
    /\ svcPc = "returned"
    /\ Len(GeminiErrors) > 0
    /\ (svcVariant = "retry" => rtPc = "thrown")
    /\ \A i \in 1..Len(svcLog) : svcLog[i].spec = "gemini" => ~svcLog[i].ok
    /\ LastGeminiError.hasMessage
    /\ ~isQuotaMessage(LastGeminiError)

\* C12: when the primary provider call fails with a timeout, an
\* unclassified error or a transient error that survived the local
\* retries, and Hugging Face is configured, a Hugging Face call is made
\* before a local heuristic or placeholder result is returned.
C12_ChainAdvances ==
    (GeminiFailedNonQuota /\ svcHF) => Len(HFCalls) > 0

InvalidReplyBodies ==
    {b \in BodiesFor("reply") :
        \/ get(b, K_ThreadContent) = Undefined
        \/ get(b, K_Summary) = Undefined
        \/ ~isArray(get(get(b, K_Summary), K_KeyPoints))}

\* C13: a POST /api/reply whose threadContent is missing, whose summary is
\* missing or whose summary.keyPoints is not a list is answered with status
\* 400, and generateReply is not invoked for it.
C13_InvalidReply400 ==
    (/\ httpLast.url = U_Reply
     /\ \E b \in InvalidReplyBodies : httpLast.key = cacheKey("reply", b)
     /\ ~(httpLast.consumed /\ httpLast.status = 429)) =>
        /\ httpLast.status = 400
        /\ ~httpLast.called

\* this step is the answer of POST /api/clear-cache
ClearCacheAnswered == httpLast' # httpLast /\ httpLast'.url = U_ClearCache

C14_Step ==
    /\ ClearCacheAnswered =>
          /\ cache' = <<>>
          /\ httpLast'.status = 200
          /\ httpLast'.body.success
    /\ (RequestArrives /\ ArrivedKey \notin DOMAIN cache) =>
          /\ MissesAtArrival
          /\ limiters' # limiters
    /\ (/\ RequestArrives
        /\ httpLast.url = U_ClearCache
        /\ ArrivedKey \in httpLast.flushed) => MissesAtArrival
    /\ Leaves =>
          /\ httpLast'.consumed
          /\ httpLast'.fromCache = "false"
          /\ httpLast'.key \in DOMAIN cache'

\* C14: POST /api/clear-cache empties the cache and answers success: true;
\* from then on a request whose response had been cached is a miss until
\* it is cached again: cacheMiddleware passes it on to the rate limiter,
\* and its answer carries fromCache: false and is stored.
C14_ClearCache == [][C14_Step]_vars

\* the cache held responses and /clear-cache has just removed them
C14_Witness ==
    /\ httpLast.url = U_ClearCache
    /\ httpLast.body = CacheCleared
    /\ httpLast.flushed # {}
    /\ cache = <<>>

\* C15: a key point that parseSummaryResponse cut from a longer candidate
\* has at most 100 characters, and parsing that key point on its own
\* returns it unchanged as the only key point.
C15_TruncationIdempotent ==
    fnPath = "parseSummaryResponse" =>
        \A i \in 1..Len(fnResult.keyPoints) :
            LET kp == fnResult.keyPoints[i]
            IN  /\ Len(kp) <= 100
                /\ Len(kp) = 100 => parseSummaryResponse(kp).keyPoints = <<kp>>

\* a bullet of 119 characters in the key points section, cut to 100
C15_Witness ==
    /\ fnPath = "parseSummaryResponse"
    /\ fnInput = join(<<L_KeyPointsHeader, L_Dash \o LongBody>>, NL)
    /\ Len(trim(LongBody)) > 100
    /\ fnResult.keyPoints = <<substring0(trim(LongBody), 100)>>

\* the lines of the text, trimmed
TrimmedLines(text) ==
    LET ls == split(text, "\n") IN {trim(ls[i]) : i \in 1..Len(ls)}

\* the line as cleanAndLimit(line, 100) renders it
Rendered(line) ==
    trim(SubSeq(line, 1, MathMin(100, Len(line))))
        \o (IF Len(line) > 100 THEN S_ellipsis ELSE <<>>)

\* C16: for a text that is not blank, generateIntelligentSummary reports
\* sentiment neutral and timeToRead = ceil(length / 200), at least 1; when
\* the text has a line long enough to be kept (more than 15 characters
\* after trimming), every key point is a line of the text, cut to 100
\* characters, and not a placeholder.
C16_HeuristicSummary ==
    (fnPath = "generateIntelligentSummary" /\ Len(trim(fnInput)) > 0) =>
        /\ fnResult.sentiment = "neutral"
        /\ \E n \in 1..Len(fnInput) :
              /\ fnResult.timeToRead = NumberOf(n)
              /\ (n - 1) * 200 < Len(fnInput)
              /\ Len(fnInput) <= n * 200
        /\ (\E l \in TrimmedLines(fnInput) : Len(l) > 15) =>
              \A i \in 1..Len(fnResult.keyPoints) :
                  /\ fnResult.keyPoints[i] \notin KeyPointPlaceholders
                  /\ \E l \in TrimmedLines(fnInput) :
                        Len(l) > 15 /\ fnResult.keyPoints[i] = Rendered(l)

\* a text of two lines, 208 characters: two key points from the text, the
\* first cut to 100 characters, and a reading time of 2
C16_Witness ==
    /\ fnPath = "generateIntelligentSummary"
    /\ fnInput = join(<<VeryLongLine, L_Plain>>, NL)
    /\ fnResult.timeToRead = NumberOf(2)
    /\ fnResult.keyPoints = <<Rendered(trim(VeryLongLine)), L_Plain>>

ParserPaths == {"parseSummaryResponse", "parseSummaryResponseUncapped"}

\* C17: every result of parseSummaryResponse has at most 3 key points and at
\* most 2 quotes, every key point has at most 100 characters and every
\* quote at most 80, whatever the input.
C17_ParserCaps ==
    fnPath \in ParserPaths =>
        /\ Len(fnResult.keyPoints) <= 3
        /\ Len(fnResult.quotes) <= 2
        /\ \A i \in 1..Len(fnResult.keyPoints) : Len(fnResult.keyPoints[i]) <= 100
        /\ \A i \in 1..Len(fnResult.quotes) : Len(fnResult.quotes[i]) <= 80

\* the lines the fallback pass accepts: more than 20 and fewer than 150
\* characters
QualifyingLines(text) ==
    SelectSeq(responseLines(text), LAMBDA line : Len(line) > 20 /\ Len(line) < 150)

\* C18: when the section scan leaves keyPoints and quotes empty, the
\* qualifying lines are taken in order: the first 3 become the key points
\* and the following 2 the quotes, each cut to its cap; with 5 or more
\* qualifying lines the result has 3 key points and 2 quotes.
C18_FallbackFill ==
    (/\ fnPath = "parseSummaryResponse"
     /\ scanLines(ScanInit, responseLines(fnInput)).keyPoints = <<>>
     /\ scanLines(ScanInit, responseLines(fnInput)).quotes = <<>>
     /\ Len(QualifyingLines(fnInput)) > 0) =>
        LET ql == QualifyingLines(fnInput)
            n == Len(ql)
        IN  /\ fnResult.keyPoints =
                   [i \in 1..MathMin(3, n) |-> substring0(ql[i], 100)]
            /\ n > 3 => fnResult.quotes =
                   [i \in 1..MathMin(2, n - 3) |-> substring0(ql[i + 3], 80)]

\* the line without its leading bullet or number marker
WithoutMarker(line) == trim(stripLeadingMarker(trim(line)))

\* C19: a line of the key points section that begins, after optional
\* leading whitespace, with '-', '*' or 'N.' is appended as a key point
\* with that marker removed.
C19_MarkerRemoved ==
    (fnPath = "parseSummaryResponse" /\ fnInput \in BulletTexts) =>
        fnResult.keyPoints =
            <<substring0(WithoutMarker(split(fnInput, "\n")[2]), 100)>>

\* the branch of the section scan a line takes, as far as the markers go
HasHeader(lowerLine) ==
    \/ includes(lowerLine, S_keyPoints) \/ includes(lowerLine, S_mainPoints)
    \/ includes(lowerLine, S_quotes) \/ includes(lowerLine, S_notableQuotes)

IsHeaderLine(line) == HasHeader(toLowerCase(trim(line)))

IsSentimentLine(line) ==
    LET lowerLine == toLowerCase(trim(line))
    IN  ~HasHeader(lowerLine) /\ includes(lowerLine, S_sentiment)

IsReadingLine(line) ==
    LET lowerLine == toLowerCase(trim(line))
    IN  /\ ~HasHeader(lowerLine)
        /\ ~includes(lowerLine, S_sentiment)
        /\ includes(lowerLine, S_readingTime)

SentimentOf(line) ==
    LET lowerLine == toLowerCase(trim(line))
    IN  IF includes(lowerLine, S_positive) THEN "positive"
        ELSE IF includes(lowerLine, S_negative) THEN "negative"
        ELSE "neutral"

\* C20: the sentiment of a parser result is positive, negative or neutral;
\* it is neutral when no line is recognized as a sentiment marker, and it is
\* otherwise read off the (last) marker line: positive if the line contains
\* 'positive', else negative if it contains 'negative', else neutral.
\* timeToRead is the first integer of the (last) reading time marker line
\* that has one when that integer is at least 1 (the integer itself up to
\* 2^53, the Number nearest to it above), it is 1 when there is no such
\* line, and it is never less than 1.
C20_SentimentAndReadingTime ==
    fnPath = "parseSummaryResponse" =>
        LET lines == responseLines(fnInput)
            sent == SelectSeq(lines, IsSentimentLine)
            read == SelectSeq(lines,
                        LAMBDA l : IsReadingLine(l) /\ firstDigits(l) # <<>>)
            ds == IF read = <<>> THEN <<>> ELSE firstDigits(read[Len(read)])
        IN  /\ fnResult.sentiment \in {"positive", "negative", "neutral"}
            /\ fnResult.sentiment =
                   IF sent = <<>> THEN "neutral" ELSE SentimentOf(sent[Len(sent)])
            /\ fnResult.timeToRead # NumberOf(0)
            /\ read = <<>> => fnResult.timeToRead = NumberOf(1)
            /\ \A k \in 1..Len(ds) :
                   (ds[k] # "0" /\ \A j \in 1..(k - 1) : ds[j] = "0") =>
                       LET n == SubSeq(ds, k, Len(ds))
                       IN  fnResult.timeToRead =
                               IF lessThan(TwoTo53, n) THEN toNumber(n) ELSE n

\* "Sentiment: negative" followed by a reading time line whose first integer
\* is 12
C20_Witness ==
    /\ fnPath = "parseSummaryResponse"
    /\ fnInput = join(<<L_SentimentNeg, L_Reading12>>, NL)
    /\ fnResult.sentiment = "negative"
    /\ fnResult.timeToRead = NumberOf(12)

\* the bodies sent with status 400, 429 and 500
IsErrorBody(body) == body.success = FALSE /\ body.error # ""

\* C27: only successful responses enter the cache: no cache entry holds the
\* body of a 400, 429 or 500 response, and no request is answered from the
\* cache with status 200 and a body that was sent as an error response.
C27_OnlySuccessCached ==
    /\ \A k \in DOMAIN cache : ~IsErrorBody(cache[k].v)
    /\ (httpLast.fromCache = "true") => ~IsErrorBody(httpLast.body)

\* the limiters differ only in the record of that client on that route,
\* which has one point more in the window current at now
TakesOnePoint(route, client) ==
    /\ ConsumedPoints(limiters'[route][client], httpNow)
          = ConsumedPoints(limiters[route][client], httpNow) + 1
    /\ \A r \in Routes, c \in Clients :
          <<r, c>> # <<route, client>> => limiters'[r][c] = limiters[r][c]

C28_Step ==
    /\ AnsweredAtArrival =>
          /\ httpLast'.fromCache = "true"
          /\ limiters' = limiters
    /\ MissesAtArrival =>
          TakesOnePoint(Arrived_Request.route, Arrived_Request.client)
    /\ ~RequestArrives => limiters' = limiters
    /\ (Leaves /\ httpLast'.status = 400) =>
          /\ httpLast'.fromCache = "false"
          /\ Leaving.awaiting = "consume"
          /\ Leaving.consumedPoints >= 1

\* C28: a request answered from the cache leaves the limiters as they are;
\* a request that misses the cache and is then answered 400 by the
\* validation has consumed one point of its client on its route.
C28_HitFreeMissCharged == [][C28_Step]_vars

\* a 400 body stored for one client's request and served from the cache to
\* another client: the first has one point consumed, the second none
C28_Witness ==
    /\ httpLast.fromCache = "true"
    /\ httpLast.url = U_Summarize
    /\ httpLast.body.error = "Bad Request"
    /\ limiters["summarize"][httpLast.client] = NoRecord
    /\ \E c \in Clients : limiters["summarize"][c].value = 1

\* a request arrived in this step
LimiterArrival == lmSeq' # lmSeq

C24_Step ==
    /\ ~LimiterArrival => rateLimit' = rateLimit
    /\ LimiterArrival =>
          /\ lmLast'.rejected => rateLimit' = rateLimit
          /\ DOMAIN rateLimit' = DOMAIN rateLimit \cup {lmLast'.client}
          /\ \A c \in DOMAIN rateLimit :
                c # lmLast'.client => rateLimit'[c] = rateLimit[c]
          /\ \A c \in DOMAIN rateLimit :
                rateLimit'[c].count > rateLimit[c].count =>
                    /\ c = lmLast'.client
                    /\ ~lmLast'.rejected
                    /\ rateLimit'[c].count = rateLimit[c].count + 1

\* C24: the counter of a client is incremented only by a request of that
\* client that is accepted; a request rejected with 429 leaves the counter
\* and the reset time of its client unchanged, and no request changes the
\* counter or the reset time of another client.
C24_CounterFrame == [][C24_Step]_vars

\* a rejected request of a client at its quota, next to another client
\* whose single accepted request is still counted once
C24_Witness ==
    /\ lmLast.rejected
    /\ lmLast.client = "anonymous"
    /\ rateLimit["anonymous"].count = lmQuota
    /\ "client-1" \in DOMAIN rateLimit
    /\ rateLimit["client-1"].count = 1

\* C25: for every client the counter satisfies 0 <= count <=
\* RATE_LIMIT_COUNT in every reachable state, whatever requests are in
\* flight: a request runs its check and its increment in one step.
C25_CounterBounded ==
    \A c \in DOMAIN rateLimit :
        rateLimit[c].count >= 0 /\ rateLimit[c].count <= lmQuota

\* a client at its quota, rejected while an earlier request is in its handler
C25_Witness ==
    /\ lmLast.rejected
    /\ rateLimit[lmLast.client].count = lmQuota
    /\ lmLast.client \in {lmInFlight[i] : i \in 1..Len(lmInFlight)}

C26_Step ==
    LimiterArrival =>
        LET c == lmLast'.client
        IN  IF c \in DOMAIN rateLimit /\ lmNow <= rateLimit[c].resetTime
            THEN /\ rateLimit'[c].resetTime = rateLimit[c].resetTime
                 /\ lmLast'.rejected <=> rateLimit[c].count >= lmQuota
                 /\ rateLimit'[c].count =
                        IF lmLast'.rejected THEN rateLimit[c].count
                        ELSE rateLimit[c].count + 1
            ELSE /\ rateLimit'[c].resetTime = lmNow + RATE_LIMIT_WINDOW
                 /\ rateLimit'[c].count = 1
                 /\ ~lmLast'.rejected

\* C26: the window is fixed: the reset time of a client is set when its
\* window is created, by its first request or by its first request after
\* the reset time has passed, and no later request inside the window,
\* accepted or rejected, changes it; a request that arrives exactly at the
\* reset time is counted in the old window.
C26_FixedWindow == [][C26_Step]_vars

\* a request arriving exactly at the reset time of a used-up window is
\* rejected
C26_Witness ==
    /\ lmLast.rejected
    /\ lmLast.at = rateLimit[lmLast.client].resetTime
    /\ rateLimit[lmLast.client].count = lmQuota

\* a request with this cache key is waiting for its service call
InFlightWith(k) == \E i \in 1..Len(httpInFlight) : httpInFlight[i].key = k

C29_Step ==
    /\ (/\ RequestArrives
        /\ InFlightWith(ArrivedKey)
        /\ ~cacheHas(ArrivedKey, httpNow)) =>
          \* the second request is a miss: it is not answered from the
          \* cache and waits next to the first
          /\ Len(httpInFlight') = Len(httpInFlight) + 1
          /\ SubSeq(httpInFlight', 1, Len(httpInFlight)) = httpInFlight
          /\ Arrived_Request.key = ArrivedKey
          /\ cache' = cache
    /\ (~RequestArrives /\ ~Leaves /\ httpInFlight' # httpInFlight) =>
          \* a request the limiter and the validation let through goes on
          \* to a service call of its own
          \E i \in 1..Len(httpInFlight) :
              /\ httpInFlight[i].awaiting = "consume"
              /\ httpInFlight' = [httpInFlight EXCEPT ![i].awaiting = "service"]
    /\ Leaves =>
          \* a response is sent after a miss, for a request that waited
          \* for its service call or was stopped before it: its body
          \* replaces whatever the cache held for the key
          /\ httpLast'.called <=> Leaving.awaiting = "service"
          /\ ~httpLast'.called => httpLast'.status \in {400, 429}
          /\ httpLast'.fromCache = "false"
          /\ httpLast'.key = Leaving.key
          /\ httpLast'.key \in DOMAIN cache'
          /\ cache'[httpLast'.key].v = httpLast'.body
          /\ cache'[httpLast'.key].at = httpNow
    /\ (RequestArrives /\ cacheHas(ArrivedKey, httpNow)) =>
          \* a later identical request is served the stored body
          /\ httpLast'.fromCache = "true"
          /\ httpLast'.body = cache[ArrivedKey].v
          /\ httpInFlight' = httpInFlight

\* C29: a request that arrives while an identical request is waiting for
\* its answer, and before any response for their key is in the cache, is
\* a cache miss too and makes a service call of its own (unless the
\* limiter or the validation stops it); each response sent overwrites the
\* cache entry of the key, so the cache keeps the body sent last, and a
\* later identical request within the time-to-live is served that body.
C29_NoCoalescing == [][C29_Step]_vars

\* the response of the first of two identical requests has been sent and
\* stored while the second still waits for its own service call
C29_Witness ==
    /\ Len(httpInFlight) = 1
    /\ httpInFlight[1].awaiting = "service"
    /\ httpLast.called
    /\ httpLast.key = httpInFlight[1].key
    /\ httpLast.key \in DOMAIN cache
    /\ cache[httpLast.key].v = httpLast.body

ReplyPaths == {"generateIntelligentReply", "generateIntelligentReplyClassified"}

\* the lines of the text longer than 20 characters, trimmed
ReplyCandidates(text) ==
    SelectSeq([i \in 1..Len(split(text, "\n")) |-> trim(split(text, "\n")[i])],
              LAMBDA line : Len(line) > 20)

Elements(list) == {list[i] : i \in 1..Len(list)}

\* the keyword sets and canned lists of the variant that ran
PositivityKeywords ==
    IF fnPath = "generateIntelligentReply" THEN contextKeywords
    ELSE positiveKeywords

PositiveList ==
    IF fnPath = "generateIntelligentReply" THEN Elements(positiveReplies)
    ELSE Elements(classifiedPositiveReplies)

NeutralList ==
    IF fnPath = "generateIntelligentReply" THEN Elements(neutralReplies)
    ELSE Elements(classifiedNeutralReplies)

DefaultList ==
    IF fnPath = "generateIntelligentReply" THEN Elements(defaultReplies)
    ELSE Elements(classifiedDefaultReplies)

\* C22: the heuristic reply is an element of the canned list of the class
\* of the first line longer than 20 characters: the positive list if the
\* line contains a positivity keyword, otherwise the question list if it
\* contains a question marker, otherwise the neutral list; with no such
\* line it is an element of the default list.
C22_ReplyClass ==
    fnPath \in ReplyPaths =>
        LET lines == ReplyCandidates(fnInput)
            first == toLowerCase(lines[1])
        IN  IF lines = <<>> THEN fnResult.reply \in DefaultList
            ELSE IF \E k \in PositivityKeywords : includes(first, k)
            THEN fnResult.reply \in PositiveList
            ELSE IF \E k \in questionKeywords : includes(first, k)
            THEN fnResult.reply \in Elements(questionReplies)
            ELSE fnResult.reply \in NeutralList

\* the provider specs of the class that runs, in the order of its code;
\* the Gemini call of the class at gemini.js:4 is made by retryOperation
Chain ==
    IF svcVariant = "retry" THEN modelsToTry(svcOp)
    ELSE IF svcVariant = "timeout" THEN <<"gemini", "hf:auto", "hf:gpt2">>
    ELSE <<"gemini">>

\* the specs invoked so far are the first specs of the chain, each once
C21_InOrderOnce ==
    /\ Len(svcCalls) <= Len(Chain)
    /\ svcCalls = SubSeq(Chain, 1, Len(svcCalls))

\* a spec that succeeded was the last one invoked and the last one to settle
C21_StopsAtSuccess ==
    \A i \in 1..Len(svcLog) :
        svcLog[i].ok =>
            /\ i = Len(svcLog)
            /\ svcLog[i].spec = svcCalls[Len(svcCalls)]

\* a spec is invoked only when the specs before it have failed
C21_AfterFailure ==
    \A i \in 2..Len(svcCalls) :
        \E j \in 1..Len(svcLog) :
            svcLog[j].spec = svcCalls[i - 1] /\ ~svcLog[j].ok

C21_Step == svcCalls' = svcCalls \/ \E s \in Elements(Chain) : svcCalls' = Append(svcCalls, s)

\* C21: within one request the provider specs are tried in the order of
\* the list, no spec is invoked twice or revisited after a later one, a
\* spec is tried only after the one before it failed, and no spec is tried
\* after one succeeded.
C21_ChainOrder ==
    /\ [](C21_InOrderOnce /\ C21_StopsAtSuccess /\ C21_AfterFailure)
    /\ [][C21_Step]_vars

\* the first two models fail and the third answers: it ends the chain
C21_Witness ==
    /\ svcVariant = "retry" /\ svcOp = "summarize"
    /\ svcPc = "returned"
    /\ svcCalls = SubSeq(HFModels, 1, 3)
    /\ Len(svcLog) = 3
    /\ ~svcLog[1].ok /\ ~svcLog[2].ok /\ svcLog[3].ok

\* a call run to its end with nothing else in flight: step is the locals of
\* the call and the generator
RECURSIVE runAlone(_, _)
runAlone(step, hf) ==
    IF step.inv.pc = "done" THEN step.inv
    ELSE runAlone(advanceOne(step.inv, hf, step.generator), hf)

AsStarted(inv) == NewInvocation(inv.op, inv.thread, inv.script)

\* a call that was in flight together with the other one has, once it is
\* finished, the result and the provider calls of a run alone on a
\* generator from which nothing has been drawn
C23_SameAsAlone ==
    \A i \in DOMAIN invocations :
        (invocations[i].pc = "done" /\ invocations[i].overlapped) =>
            \E alone \in {runAlone([inv |-> AsStarted(invocations[i]),
                                     generator |-> Generator(mathRandom.values)],
                                    instHF)} :
                /\ invocations[i].outcome = alone.outcome
                /\ invocations[i].calls = alone.calls

\* a step changes the locals of one call and nothing the calls share
C23_Step ==
    /\ instHF' = instHF
    /\ mathRandom' = mathRandom
    /\ \E i \in DOMAIN invocations :
          \A j \in DOMAIN invocations \ {i} : invocations'[j] = invocations[j]

\* C23: a summarizeThread or generateReply call reads and writes no state
\* it shares with another call: under every interleaving of two calls in
\* flight, each ends with the result it has when it runs alone with the
\* same provider answers.
C23_Independent == []C23_SameAsAlone /\ [][C23_Step]_vars

\* the paths that build a SummaryResult without parseSummaryResponse
HeuristicPaths == {"generateIntelligentSummary", "parseIntelligentHFResponse"}

\* C30: a SummaryResult built without parseSummaryResponse (the local
\* heuristic summary, the conversion of a Hugging Face answer) has between
\* 1 and 3 key points and between 1 and 2 quotes, each key point of at most
\* 100 characters and each quote of at most 80.
C30_HeuristicCaps ==
    fnPath \in HeuristicPaths =>
        /\ Len(fnResult.keyPoints) \in 1..3
        /\ Len(fnResult.quotes) \in 1..2
        /\ \A i \in 1..Len(fnResult.keyPoints) : Len(fnResult.keyPoints[i]) <= 100
        /\ \A i \in 1..Len(fnResult.quotes) : Len(fnResult.quotes[i]) <= 80

====
